---- MODULE Spec2Model ----
(***************************************************************************)
(* A model of the price-time priority order book of aryanjain285/Orderbook *)
(* (src/src/orderbook): the Order and Trade value types (types.rs), the    *)
(* PriceLevel FIFO queue with its two aggregate counters (price_level.rs), *)
(* the OrderBook facade (book.rs) and the OrderOperations / MatchingEngine *)
(* facade (operations.rs, matching.rs).                                    *)
(*                                                                         *)
(* One public call is one action.  The side maps are DashMaps: a Ref       *)
(* obtained with get() keeps the shard read-locked until it is dropped,    *)
(* and remove() on the same map needs the shard's write lock, so a call    *)
(* that reaches remove() while it still holds the Ref never returns.  The  *)
(* model records that as pc = "blocked", with the maps as they were when   *)
(* the call stopped.                                                       *)
(***************************************************************************)
EXTENDS Integers, Sequences, FiniteSets, TLC

\* ---------------------------------------------------------------- bounds
MaxOrders == 3      \* order ids handed out by the callers: 1..MaxOrders
MaxPrice == 2       \* prices submitted: 0..MaxPrice
MaxQty == 2         \* quantities submitted: 0..MaxQty
MaxModifies == 1    \* modify calls made in one run

VARIABLES
    api,               \* which facade owns the maps: "book" or "ops"
    bids,              \* Price -> PriceLevel (buy side)
    asks,              \* Price -> PriceLevel (sell side)
    order_locations,   \* OrderId -> OrderLocation
    last_trade_price,  \* OrderBook.last_trade_price (0: none)
    total_trades,      \* OrderBook.total_trades
    total_volume,      \* OrderBook.total_volume
    next_id,           \* the next fresh order id (Uuid::new_v4 of the caller)
    modifies,          \* modify calls made so far
    pc,                \* "idle": the last call returned; "blocked": it never will;
                       \* "threads": concurrent calls are under way
    result,            \* what the last call returned, with the order it was given
    threads            \* the concurrent calls under way: [calls: thread -> its
                       \* call's position and locals, start: the maps when the
                       \* threads started]; empty while calls come one at a time

vars == <<api, bids, asks, order_locations, last_trade_price, total_trades,
          total_volume, next_id, modifies, pc, result, threads>>

\* ----------------------------------------------------------------- types
Side == {"Buy", "Sell"}

Symbol == "TEST"

Min(a, b) == IF a < b THEN a ELSE b

\* Option::None for an optional price or quantity
None == 0 - 1

EmptyMap == [x \in {} |-> 0]

MapRemove(m, k) == [x \in (DOMAIN m) \ {k} |-> m[x]]

MapPut(m, k, v) == [x \in (DOMAIN m) \cup {k} |-> IF x = k THEN v ELSE m[x]]

new_limit(id, symbol, side, price, quantity) ==
    [id |-> id, symbol |-> symbol, side |-> side, order_type |-> "Limit",
     price |-> price, original_quantity |-> quantity,
     remaining_quantity |-> quantity, filled_quantity |-> 0, status |-> "New"]

new_market(id, symbol, side, quantity) ==
    [id |-> id, symbol |-> symbol, side |-> side, order_type |-> "Market",
     price |-> 0, original_quantity |-> quantity,
     remaining_quantity |-> quantity, filled_quantity |-> 0, status |-> "New"]

NoOrder == new_limit(0, Symbol, "Buy", 0, 0)

\* Order::fill: [ok, order]; an over-fill is refused and changes nothing.
fill(o, quantity) ==
    IF quantity > o.remaining_quantity
    THEN [ok |-> FALSE, order |-> o]
    ELSE LET r == o.remaining_quantity - quantity
         IN [ok |-> TRUE,
             order |-> [o EXCEPT !.remaining_quantity = r,
                                 !.filled_quantity = @ + quantity,
                                 !.status = IF r = 0 THEN "Filled"
                                            ELSE "PartiallyFilled"]]

cancel(o) == [o EXCEPT !.status = "Cancelled"]

\* faulty variant of Order::is_complete: Filled is left out
is_complete_unfilled(o) == o.status \in {"Cancelled", "Rejected", "Expired"}

is_complete(o) == o.status \in {"Filled", "Cancelled", "Rejected", "Expired"}

\* faulty variant of Trade::new: the two order ids change places
Trade_new_swapped(buyer_id, seller_id, price, quantity) ==
    [type |-> "Trade", buyer_order_id |-> seller_id, seller_order_id |-> buyer_id,
     price |-> price, quantity |-> quantity]

Trade_new(buyer_id, seller_id, price, quantity) ==
    [type |-> "Trade", buyer_order_id |-> buyer_id, seller_order_id |-> seller_id,
     price |-> price, quantity |-> quantity]

\* ------------------------------------------------------------ PriceLevel
PriceLevel_new == [orders |-> <<>>, total_quantity |-> 0, order_count |-> 0]

\* faulty variant of PriceLevel::add_order: push_front instead of push_back
PriceLevel_add_order_front(level, o) ==
    [orders |-> <<o>> \o level.orders,
     total_quantity |-> level.total_quantity + o.remaining_quantity,
     order_count |-> level.order_count + 1]

PriceLevel_add_order(level, o) ==
    [orders |-> Append(level.orders, o),
     total_quantity |-> level.total_quantity + o.remaining_quantity,
     order_count |-> level.order_count + 1]

\* position of the first order with this id, 0 if none
Position(orders, id) ==
    IF \E i \in 1..Len(orders) : orders[i].id = id
    THEN CHOOSE i \in 1..Len(orders) :
            orders[i].id = id /\ \A j \in 1..(i - 1) : orders[j].id # id
    ELSE 0

RemoveAt(s, i) == SubSeq(s, 1, i - 1) \o SubSeq(s, i + 1, Len(s))

\* a variant of PriceLevel::remove_order that leaves total_quantity as it was
PriceLevel_remove_order_uncounted(level, id) ==
    LET pos == Position(level.orders, id)
    IN IF pos = 0
       THEN [found |-> FALSE, order |-> NoOrder, level |-> level]
       ELSE [found |-> TRUE, order |-> level.orders[pos],
             level |-> [orders |-> RemoveAt(level.orders, pos),
                        total_quantity |-> level.total_quantity,
                        order_count |-> level.order_count - 1]]

\* PriceLevel::remove_order: [found, order, level]
PriceLevel_remove_order(level, id) ==
    LET pos == Position(level.orders, id)
    IN IF pos = 0
       THEN [found |-> FALSE, order |-> NoOrder, level |-> level]
       ELSE [found |-> TRUE, order |-> level.orders[pos],
             level |-> [orders |-> RemoveAt(level.orders, pos),
                        total_quantity |-> level.total_quantity
                                           - level.orders[pos].remaining_quantity,
                        order_count |-> level.order_count - 1]]

RECURSIVE TakeLoop(_, _, _)
TakeLoop(level, requested, filled_orders) ==
    IF requested > 0 /\ level.orders # <<>>
    THEN LET o == Head(level.orders)
             available == o.remaining_quantity
             fill_quantity == Min(requested, available)
             f == fill(o, fill_quantity).order
             popped == f.remaining_quantity = 0
             lvl == [orders |-> IF popped THEN Tail(level.orders)
                                ELSE <<f>> \o Tail(level.orders),
                     total_quantity |-> level.total_quantity - fill_quantity,
                     order_count |-> IF popped THEN level.order_count - 1
                                     ELSE level.order_count]
             fs == Append(filled_orders, [order |-> f, quantity |-> fill_quantity])
         IN IF fill_quantity < available
            THEN [level |-> lvl, fills |-> fs]
            ELSE TakeLoop(lvl, requested - fill_quantity, fs)
    ELSE [level |-> level, fills |-> filled_orders]

\* faulty variant of PriceLevel::take_quantity: only the first fill is reported
PriceLevel_take_quantity_first(level, requested_quantity) ==
    LET r == TakeLoop(level, requested_quantity, <<>>)
    IN [level |-> r.level,
        fills |-> IF r.fills = <<>> THEN <<>> ELSE <<Head(r.fills)>>]

\* PriceLevel::take_quantity: [level, fills], fills = <<[order (post-fill), quantity]>>
PriceLevel_take_quantity(level, requested_quantity) ==
    TakeLoop(level, requested_quantity, <<>>)

\* PriceLevel::modify_order_quantity: [found, old_quantity, level]
\* a variant that queues the modified order again at the back of the level
PriceLevel_modify_order_quantity_requeue(level, id, new_quantity) ==
    LET pos == Position(level.orders, id)
    IN IF pos = 0
       THEN [found |-> FALSE, old_quantity |-> 0, level |-> level]
       ELSE LET old_quantity == level.orders[pos].remaining_quantity
                quantity_diff == new_quantity - old_quantity
                moved == [level.orders[pos] EXCEPT !.remaining_quantity = new_quantity]
            IN [found |-> TRUE, old_quantity |-> old_quantity,
                level |-> [level EXCEPT
                    !.orders = Append(SelectSeq(level.orders, LAMBDA o : o.id # id),
                                      moved),
                    !.total_quantity = @ + quantity_diff]]

\* a variant of PriceLevel::modify_order_quantity that leaves total_quantity as
\* it was
PriceLevel_modify_order_quantity_untotalled(level, id, new_quantity) ==
    LET pos == Position(level.orders, id)
    IN IF pos = 0
       THEN [found |-> FALSE, old_quantity |-> 0, level |-> level]
       ELSE [found |-> TRUE,
             old_quantity |-> level.orders[pos].remaining_quantity,
             level |-> [level EXCEPT
                 !.orders[pos].remaining_quantity = new_quantity]]

PriceLevel_modify_order_quantity(level, id, new_quantity) ==
    LET pos == Position(level.orders, id)
    IN IF pos = 0
       THEN [found |-> FALSE, old_quantity |-> 0, level |-> level]
       ELSE LET old_quantity == level.orders[pos].remaining_quantity
                quantity_diff == new_quantity - old_quantity
            IN [found |-> TRUE, old_quantity |-> old_quantity,
                level |-> [level EXCEPT
                    !.orders[pos].remaining_quantity = new_quantity,
                    !.total_quantity = @ + quantity_diff]]

total_quantity_of(level) == level.total_quantity

is_empty(level) == level.order_count = 0

\* --------------------------------------------------------------- results
\* What a public call hands back: status "Ok" with its events or "Err" with
\* the error; "None" before any call; "Blocked" when the call never returns.
Result(op, status, err, events, order, target) ==
    [op |-> op, status |-> status, err |-> err, events |-> events,
     order |-> order, target |-> target]

OrderAdded(o) == [type |-> "OrderAdded", order |-> o]

OrderCancelled(id, remaining_quantity) ==
    [type |-> "OrderCancelled", order_id |-> id,
     remaining_quantity |-> remaining_quantity]

OrderModified(id, new_price, new_quantity) ==
    [type |-> "OrderModified", order_id |-> id, new_price |-> new_price,
     new_quantity |-> new_quantity]

\* ------------------------------------------------------------- OrderBook
RECURSIVE SortAsc(_)
SortAsc(S) ==
    IF S = {} THEN <<>>
    ELSE LET m == CHOOSE x \in S : \A y \in S : x <= y
         IN <<m>> \o SortAsc(S \ {m})

RECURSIVE SortDesc(_)
SortDesc(S) ==
    IF S = {} THEN <<>>
    ELSE LET m == CHOOSE x \in S : \A y \in S : x >= y
         IN <<m>> \o SortDesc(S \ {m})

\* the opposite side's prices in the order the matching loops walk them
SortedPrices(order, opposite_side) ==
    IF order.side = "Buy" THEN SortAsc(DOMAIN opposite_side)
    ELSE SortDesc(DOMAIN opposite_side)

\* a variant of the price test that lets every level match
can_match_any(order, price) == order.price >= 0 /\ price >= 0

can_match(order, price) ==
    IF order.side = "Buy" THEN order.price >= price ELSE order.price <= price

RECURSIVE SumQuantity(_)
SumQuantity(trades) ==
    IF trades = <<>> THEN 0 ELSE Head(trades).quantity + SumQuantity(Tail(trades))

\* faulty variant of the fill loop: the fills of a level are reported as one
\* Trade for their whole quantity, naming the first resting order
BookFillLoop_merged(order, locs, fills, price, trades) ==
    IF fills = <<>>
    THEN [ok |-> TRUE, order |-> order, locs |-> locs, trades |-> trades]
    ELSE LET first == Head(fills).order
             quantity == SumQuantity(fills)
             trade == IF order.side = "Buy"
                      THEN Trade_new(order.id, first.id, price, quantity)
                      ELSE Trade_new(first.id, order.id, price, quantity)
             r == fill(order, quantity)
             gone == {fills[i].order.id : i \in {j \in 1..Len(fills) :
                                                   is_complete(fills[j].order)}}
         IN [ok |-> r.ok, order |-> r.order,
             locs |-> [x \in (DOMAIN locs) \ gone |-> locs[x]],
             trades |-> Append(trades, trade)]

\* the "for (matched_order, fill_quantity) in fills" loop of OrderBook::match_order
\* and OrderBook::execute_market_order: [ok, order, locs, trades]
RECURSIVE BookFillLoop(_, _, _, _, _)
BookFillLoop(order, locs, fills, price, trades) ==
    IF fills = <<>>
    THEN [ok |-> TRUE, order |-> order, locs |-> locs, trades |-> trades]
    ELSE LET matched_order == Head(fills).order
             fill_quantity == Head(fills).quantity
             trade == IF order.side = "Buy"
                      THEN Trade_new(order.id, matched_order.id, price, fill_quantity)
                      ELSE Trade_new(matched_order.id, order.id, price, fill_quantity)
             r == fill(order, fill_quantity)
         IN IF ~r.ok
            THEN [ok |-> FALSE, order |-> order, locs |-> locs, trades |-> trades]
            ELSE BookFillLoop(r.order,
                              IF is_complete(matched_order)
                              THEN MapRemove(locs, matched_order.id) ELSE locs,
                              Tail(fills), price, Append(trades, trade))

\* the "for price in prices" loop: [status, order, opp, locs, trades] with
\* status "ok" (the loop ended), "err" (order.fill(..)? failed) or "blocked"
\* (opposite_side.remove(&price) was reached with the Ref `level` still held).
RECURSIVE BookMatchLoop(_, _, _, _, _, _)
BookMatchLoop(order, opp, locs, prices, trades, check_price) ==
    LET done == [status |-> "ok", order |-> order, opp |-> opp, locs |-> locs,
                 trades |-> trades]
    IN IF prices = <<>> \/ order.remaining_quantity = 0 THEN done
       ELSE LET price == Head(prices)
            IN IF check_price /\ ~can_match(order, price) THEN done
               ELSE IF price \notin DOMAIN opp
               THEN BookMatchLoop(order, opp, locs, Tail(prices), trades, check_price)
               ELSE LET level == opp[price]
                        available_quantity == total_quantity_of(level)
                        match_quantity == Min(order.remaining_quantity, available_quantity)
                        tk == PriceLevel_take_quantity(level, match_quantity)
                        fl == BookFillLoop(order, locs, tk.fills, price, trades)
                        opp2 == [opp EXCEPT ![price] = tk.level]
                    IN IF available_quantity = 0
                       THEN BookMatchLoop(order, opp, locs, Tail(prices), trades,
                                          check_price)
                       ELSE IF ~fl.ok
                       THEN [status |-> "err", order |-> fl.order, opp |-> opp2,
                             locs |-> fl.locs, trades |-> fl.trades]
                       ELSE IF is_empty(tk.level)
                       THEN [status |-> "blocked", order |-> fl.order, opp |-> opp2,
                             locs |-> fl.locs, trades |-> fl.trades]
                       ELSE BookMatchLoop(fl.order, opp2, fl.locs, Tail(prices),
                                          fl.trades, check_price)

OrderBook_match_order(order, opposite_side, locs) ==
    BookMatchLoop(order, opposite_side, locs, SortedPrices(order, opposite_side),
                  <<>>, TRUE)

OrderBook_execute_market_order(order, opposite_side, locs) ==
    BookMatchLoop(order, opposite_side, locs, SortedPrices(order, opposite_side),
                  <<>>, FALSE)

\* faulty variant of the statistics update: done without the is_empty() test
StatsAfter_always(trades) ==
    [total_trades |-> total_trades + Len(trades),
     total_volume |-> total_volume + SumQuantity(trades),
     last_trade_price |-> IF trades = <<>> THEN 0 ELSE trades[Len(trades)].price]

\* "Update statistics" at the end of both matching functions
StatsAfter(trades) ==
    IF trades = <<>>
    THEN [total_trades |-> total_trades, total_volume |-> total_volume,
          last_trade_price |-> last_trade_price]
    ELSE [total_trades |-> total_trades + Len(trades),
          total_volume |-> total_volume + SumQuantity(trades),
          last_trade_price |-> trades[Len(trades)].price]

\* a variant of add_order_to_book that leaves order_locations as it was
OrderBook_add_order_to_book_untracked(order, price_levels, locs) ==
    LET level == IF order.price \in DOMAIN price_levels
                 THEN price_levels[order.price] ELSE PriceLevel_new
    IN [levels |-> MapPut(price_levels, order.price, PriceLevel_add_order(level, order)),
        locs |-> locs]

\* OrderBook::add_order_to_book: [levels, locs]
OrderBook_add_order_to_book(order, price_levels, locs) ==
    LET level == IF order.price \in DOMAIN price_levels
                 THEN price_levels[order.price] ELSE PriceLevel_new
    IN [levels |-> MapPut(price_levels, order.price, PriceLevel_add_order(level, order)),
        locs |-> MapPut(locs, order.id, [price |-> order.price, side |-> order.side])]

OppositeOf(side) == IF side = "Buy" THEN asks ELSE bids

OwnOf(side) == IF side = "Buy" THEN bids ELSE asks

\* writes one side map back, the other being left as it is
SetSides(side_of_map, m, other) ==
    /\ bids' = IF side_of_map = "Buy" THEN m ELSE other
    /\ asks' = IF side_of_map = "Sell" THEN m ELSE other

OppSide(side) == IF side = "Buy" THEN "Sell" ELSE "Buy"

\* ------------------------------------------------ OrderBook: public calls
Idle(a) == pc = "idle" /\ api = a

\* a modify call is made while the run's budget of them lasts
ModifyCall == modifies < MaxModifies /\ modifies' = modifies + 1

\* OrderBook::add_limit_order, given Order::new_limit(symbol, side, price, quantity)
OrderBook_add_limit_order(symbol, side, price, quantity) ==
    /\ Idle("book")
    /\ UNCHANGED threads
    /\ UNCHANGED modifies
    /\ next_id <= MaxOrders
    /\ LET order == new_limit(next_id, symbol, side, price, quantity)
           m == OrderBook_match_order(order, OppositeOf(side), order_locations)
           st == StatsAfter(m.trades)
           rests == m.order.remaining_quantity > 0
           added == OrderBook_add_order_to_book(m.order, OwnOf(side), m.locs)
           trade_events == m.trades
       IN IF order.symbol # Symbol
          THEN /\ result' = Result("add_limit_order", "Err", "InvalidSymbol", <<>>,
                                   NoOrder, 0)
               /\ UNCHANGED <<api, bids, asks, order_locations, last_trade_price,
                              total_trades, total_volume, next_id, pc>>
          ELSE /\ next_id' = next_id + 1
               /\ api' = api
               /\ IF m.status = "ok"
                  THEN /\ pc' = pc
                       /\ last_trade_price' = st.last_trade_price
                       /\ total_trades' = st.total_trades
                       /\ total_volume' = st.total_volume
                       /\ IF rests
                          THEN /\ SetSides(side, added.levels, m.opp)
                               /\ order_locations' = added.locs
                               /\ result' = Result("add_limit_order", "Ok", "",
                                      Append(trade_events, OrderAdded(m.order)),
                                      order, 0)
                          ELSE /\ SetSides(OppSide(side), m.opp, OwnOf(side))
                               /\ order_locations' = m.locs
                               /\ result' = Result("add_limit_order", "Ok", "",
                                      trade_events, order, 0)
                  ELSE /\ pc' = IF m.status = "blocked" THEN "blocked" ELSE pc
                       /\ SetSides(OppSide(side), m.opp, OwnOf(side))
                       /\ order_locations' = m.locs
                       /\ result' = IF m.status = "blocked"
                                    THEN Result("add_limit_order", "Blocked", "", <<>>,
                                                order, 0)
                                    ELSE Result("add_limit_order", "Err", "OverFill",
                                                <<>>, order, 0)
                       /\ UNCHANGED <<last_trade_price, total_trades, total_volume>>

\* OrderBook::add_market_order, given Order::new_market (or, to be refused, new_limit)
OrderBook_add_market_order(symbol, side, quantity, order_type) ==
    /\ Idle("book")
    /\ UNCHANGED threads
    /\ UNCHANGED modifies
    /\ next_id <= MaxOrders
    /\ LET order == IF order_type = "Market"
                    THEN new_market(next_id, symbol, side, quantity)
                    ELSE new_limit(next_id, symbol, side, MaxPrice, quantity)
           m == OrderBook_execute_market_order(order, OppositeOf(side), order_locations)
           st == StatsAfter(m.trades)
       IN IF order.symbol # Symbol \/ order.order_type # "Market"
          THEN /\ result' = Result("add_market_order", "Err",
                                   IF order.symbol # Symbol THEN "InvalidSymbol"
                                   ELSE "InvalidOrderType", <<>>, NoOrder, 0)
               /\ UNCHANGED <<api, bids, asks, order_locations, last_trade_price,
                              total_trades, total_volume, next_id, pc>>
          ELSE /\ next_id' = next_id + 1
               /\ api' = api
               /\ SetSides(OppSide(side), m.opp, OwnOf(side))
               /\ order_locations' = m.locs
               /\ IF m.status = "ok"
                  THEN /\ pc' = pc
                       /\ last_trade_price' = st.last_trade_price
                       /\ total_trades' = st.total_trades
                       /\ total_volume' = st.total_volume
                       /\ result' = IF m.trades = <<>>
                                    THEN Result("add_market_order", "Err", "NoLiquidity",
                                                <<>>, NoOrder, 0)
                                    ELSE Result("add_market_order", "Ok", "", m.trades,
                                                order, 0)
                  ELSE /\ pc' = IF m.status = "blocked" THEN "blocked" ELSE pc
                       /\ result' = IF m.status = "blocked"
                                    THEN Result("add_market_order", "Blocked", "", <<>>,
                                                order, 0)
                                    ELSE Result("add_market_order", "Err", "OverFill",
                                                <<>>, order, 0)
                       /\ UNCHANGED <<last_trade_price, total_trades, total_volume>>

\* cancel_order of both facades (book.rs 108-140, operations.rs 48-91): the
\* location is removed first; the level is dropped from the map, when this was
\* its last order, while the Ref `level` into that map is still held.
CancelOrder(op, order_id) ==
    IF order_id \notin DOMAIN order_locations
    THEN /\ result' = Result(op, "Err", "OrderNotFound", <<>>, NoOrder, 0)
         /\ UNCHANGED <<bids, asks, order_locations, pc>>
    ELSE LET location == order_locations[order_id]
             price_levels == OwnOf(location.side)
             present == location.price \in DOMAIN price_levels
             rm == PriceLevel_remove_order(price_levels[location.price], order_id)
         IN /\ order_locations' = MapRemove(order_locations, order_id)
            /\ IF present /\ rm.found
               THEN /\ SetSides(location.side,
                                [price_levels EXCEPT ![location.price] = rm.level],
                                OppositeOf(location.side))
                    /\ IF is_empty(rm.level)
                       THEN /\ pc' = "blocked"
                            /\ result' = Result(op, "Blocked", "", <<>>, NoOrder,
                                                order_id)
                       ELSE /\ pc' = pc
                            /\ result' = Result(op, "Ok", "",
                                   <<OrderCancelled(order_id,
                                                    rm.order.remaining_quantity)>>,
                                   NoOrder, order_id)
               ELSE /\ result' = Result(op, "Err", "OrderNotFound", <<>>, NoOrder, 0)
                    /\ UNCHANGED <<bids, asks, pc>>

OrderBook_cancel_order(order_id) ==
    /\ Idle("book")
    /\ UNCHANGED threads
    /\ CancelOrder("cancel_order", order_id)
    /\ UNCHANGED <<api, last_trade_price, total_trades, total_volume, next_id,
                   modifies>>

\* OrderBook::modify_order_quantity
OrderBook_modify_order_quantity(order_id, new_quantity) ==
    /\ Idle("book")
    /\ UNCHANGED threads
    /\ ModifyCall
    /\ UNCHANGED <<api, order_locations, last_trade_price, total_trades,
                   total_volume, next_id, pc>>
    /\ IF order_id \notin DOMAIN order_locations
       THEN /\ result' = Result("modify_order_quantity", "Err", "OrderNotFound", <<>>,
                                NoOrder, 0)
            /\ UNCHANGED <<bids, asks>>
       ELSE LET location == order_locations[order_id]
                price_levels == OwnOf(location.side)
                present == location.price \in DOMAIN price_levels
                md == PriceLevel_modify_order_quantity(price_levels[location.price],
                                                       order_id, new_quantity)
            IN IF present /\ md.found
               THEN /\ SetSides(location.side,
                                [price_levels EXCEPT ![location.price] = md.level],
                                OppositeOf(location.side))
                    /\ result' = Result("modify_order_quantity", "Ok", "",
                                   <<OrderModified(order_id, None, new_quantity)>>,
                                   NoOrder, order_id)
               ELSE /\ result' = Result("modify_order_quantity", "Err",
                                        "OrderNotFound", <<>>, NoOrder, 0)
                    /\ UNCHANGED <<bids, asks>>

\* ------------------------------------------------------- MatchingEngine
\* the "for (matched_order, fill_quantity) in fills" loop of match_limit_order and
\* match_market_order: the result of order.fill is dropped, and the loop is left
\* once the aggressor has nothing remaining.  [order, trades]
RECURSIVE EngineFillLoop(_, _, _, _)
EngineFillLoop(order, fills, price, trades) ==
    IF fills = <<>>
    THEN [order |-> order, trades |-> trades]
    ELSE LET matched_order == Head(fills).order
             fill_quantity == Head(fills).quantity
             trade == IF order.side = "Buy"
                      THEN Trade_new(order.id, matched_order.id, price, fill_quantity)
                      ELSE Trade_new(matched_order.id, order.id, price, fill_quantity)
             filled == fill(order, fill_quantity).order
         IN IF filled.remaining_quantity = 0
            THEN [order |-> filled, trades |-> Append(trades, trade)]
            ELSE EngineFillLoop(filled, Tail(fills), price, Append(trades, trade))

\* the "for (price, level) in opposite_levels" loop; the levels are the Arcs the
\* side map holds, so a take is seen through the map.  [order, opp, trades]
RECURSIVE EngineMatchLoop(_, _, _, _, _)
EngineMatchLoop(order, opp, prices, trades, check_price) ==
    LET done == [order |-> order, opp |-> opp, trades |-> trades]
    IN IF prices = <<>> \/ order.remaining_quantity = 0 THEN done
       ELSE LET price == Head(prices)
                level == opp[price]
                available_quantity == total_quantity_of(level)
                match_quantity == Min(order.remaining_quantity, available_quantity)
                tk == PriceLevel_take_quantity(level, match_quantity)
                fl == EngineFillLoop(order, tk.fills, price, trades)
            IN IF check_price /\ ~can_match(order, price) THEN done
               ELSE IF available_quantity = 0
               THEN EngineMatchLoop(order, opp, Tail(prices), trades, check_price)
               ELSE EngineMatchLoop(fl.order, [opp EXCEPT ![price] = tk.level],
                                    Tail(prices), fl.trades, check_price)

MatchingEngine_match_market_order(order, opp) ==
    EngineMatchLoop(order, opp, SortedPrices(order, opp), <<>>, FALSE)

MatchingEngine_match_limit_order(order, opp) ==
    EngineMatchLoop(order, opp, SortedPrices(order, opp), <<>>, TRUE)

\* faulty variant of match_ioc_order: order.cancel() is left out
CancelRemaining_kept(m) == m

\* match_ioc_order after its match_limit_order: what is left is cancelled
CancelRemaining(m) ==
    IF m.order.remaining_quantity > 0
    THEN [m EXCEPT !.order = cancel(m.order)]
    ELSE m

MatchingEngine_match_ioc_order(order, opp) ==
    CancelRemaining(MatchingEngine_match_limit_order(order, opp))

RECURSIVE AvailableLoop(_, _, _)
AvailableLoop(order, opp, prices) ==
    IF prices = <<>> THEN 0
    ELSE IF ~can_match(order, Head(prices)) THEN 0
    ELSE total_quantity_of(opp[Head(prices)]) + AvailableLoop(order, opp, Tail(prices))

MatchingEngine_calculate_available_quantity(order, opp) ==
    AvailableLoop(order, opp, SortedPrices(order, opp))

MatchingEngine_match_fok_order(order, opp) ==
    IF MatchingEngine_calculate_available_quantity(order, opp) < order.remaining_quantity
    THEN [order |-> cancel(order), opp |-> opp, trades |-> <<>>]
    ELSE MatchingEngine_match_limit_order(order, opp)

\* MatchingEngine::match_order for the four accepted types
MatchingEngine_match_order(order, opp) ==
    CASE order.order_type = "Market" -> MatchingEngine_match_market_order(order, opp)
      [] order.order_type = "Limit" -> MatchingEngine_match_limit_order(order, opp)
      [] order.order_type = "ImmediateOrCancel" ->
            MatchingEngine_match_ioc_order(order, opp)
      [] OTHER -> MatchingEngine_match_fok_order(order, opp)

\* Order.client_id, a client's number or None. No function of the order book
\* reads the field except is_self_trade, so it is not carried in the order
\* records: the callers of a run submit their first two orders for client 1
\* and the later ones for client 2.
client_id(o) == IF o.id \in {1, 2} THEN 1 ELSE 2

\* MatchingEngine::is_self_trade
MatchingEngine_is_self_trade(order1, order2) ==
    IF client_id(order1) # None /\ client_id(order2) # None
    THEN client_id(order1) = client_id(order2)
    ELSE FALSE

\* "" when the order may be matched, else the error
MatchingEngine_validate_order_for_matching(order) ==
    IF order.remaining_quantity = 0 THEN "InvalidQuantity"
    ELSE IF is_complete(order) THEN "InvalidOrderState"
    ELSE IF order.order_type = "Market" THEN ""
    ELSE IF order.order_type \in {"Limit", "ImmediateOrCancel", "FillOrKill"}
    THEN (IF order.price = 0 THEN "InvalidPrice" ELSE "")
    ELSE "InvalidOrderType"

\* ------------------------------------------------------ OrderOperations
\* a variant of validate_order without the check of the order's status
OrderOperations_validate_order_any_status(order) ==
    IF order.original_quantity = 0 \/ order.remaining_quantity = 0
    THEN "InvalidQuantity"
    ELSE IF order.order_type \in {"Limit", "ImmediateOrCancel", "FillOrKill"}
            /\ order.price = 0
    THEN "InvalidPrice"
    ELSE IF order.order_type \in {"Stop", "StopLimit"} THEN "InvalidOrderType"
    ELSE ""

\* "" when the order is accepted, else the error
OrderOperations_validate_order(order) ==
    IF order.original_quantity = 0 \/ order.remaining_quantity = 0
    THEN "InvalidQuantity"
    ELSE IF order.order_type \in {"Limit", "ImmediateOrCancel", "FillOrKill"}
            /\ order.price = 0
    THEN "InvalidPrice"
    ELSE IF order.order_type \in {"Stop", "StopLimit"} THEN "InvalidOrderType"
    ELSE IF order.status # "New" THEN "InvalidOrderState"
    ELSE ""

\* OrderOperations::add_order_to_book: [levels, locs]
OrderOperations_add_order_to_book(order, price_levels, locs) ==
    LET level == IF order.price \in DOMAIN price_levels
                 THEN price_levels[order.price] ELSE PriceLevel_new
    IN [levels |-> MapPut(price_levels, order.price, PriceLevel_add_order(level, order)),
        locs |-> MapPut(locs, order.id, [price |-> order.price, side |-> order.side])]

\* "Clean up empty levels": no Ref into the map is held here
CleanupLevels(opp) == [p \in {q \in DOMAIN opp : ~is_empty(opp[q])} |-> opp[p]]

\* OrderOperations::match_order: [err, order, opp, trades]
\* match_order after MatchingEngine::match_order returned m
Cleaned(m) ==
    [err |-> "", order |-> m.order, opp |-> CleanupLevels(m.opp),
     trades |-> m.trades]

OrderOperations_match_order(order, opp) ==
    LET err == MatchingEngine_validate_order_for_matching(order)
    IN IF err # ""
       THEN [err |-> err, order |-> order, opp |-> opp, trades |-> <<>>]
       ELSE Cleaned(MatchingEngine_match_order(order, opp))

\* OrderOperations::add_order on the maps (b, a, locs):
\* [err, events, bids, asks, locs]
\* add_order after its match_order returned m: the events, and the rest of
\* the order queued when something remains and it is not complete
AddOrderMatched(order, b, a, locs, m) ==
    LET own == IF order.side = "Buy" THEN b ELSE a
        rests == m.order.remaining_quantity > 0 /\ ~is_complete(m.order)
        added == OrderOperations_add_order_to_book(m.order, own, locs)
        own2 == IF rests THEN added.levels ELSE own
    IN IF m.err # ""
       THEN [err |-> m.err, events |-> <<>>, bids |-> b, asks |-> a, locs |-> locs]
       ELSE [err |-> "",
             events |-> IF rests THEN Append(m.trades, OrderAdded(m.order))
                        ELSE m.trades,
             bids |-> IF order.side = "Buy" THEN own2 ELSE m.opp,
             asks |-> IF order.side = "Buy" THEN m.opp ELSE own2,
             locs |-> IF rests THEN added.locs ELSE locs]

OrderOperations_add_order(order, b, a, locs) ==
    LET verr == OrderOperations_validate_order(order)
    IN IF verr # ""
       THEN [err |-> verr, events |-> <<>>, bids |-> b, asks |-> a, locs |-> locs]
       ELSE AddOrderMatched(order, b, a, locs,
                OrderOperations_match_order(order,
                    IF order.side = "Buy" THEN a ELSE b))

OrderTypes == {"Limit", "Market", "ImmediateOrCancel", "FillOrKill", "Stop"}

\* the order a caller builds for OrderOperations::add_order
NewOrder(id, order_type, side, price, quantity) ==
    IF order_type = "Market" THEN new_market(id, Symbol, side, quantity)
    ELSE [new_limit(id, Symbol, side, price, quantity) EXCEPT
             !.order_type = order_type]

\* ------------------------------------------ OrderOperations: public calls
\* add_order returns r for the order it was given
AddOrderReturns(order, r) ==
    IF r.err # ""
    THEN /\ result' = Result("add_order", "Err", r.err, <<>>, NoOrder, 0)
         /\ UNCHANGED <<bids, asks, order_locations, next_id>>
    ELSE /\ result' = Result("add_order", "Ok", "", r.events, order, 0)
         /\ bids' = r.bids
         /\ asks' = r.asks
         /\ order_locations' = r.locs
         /\ next_id' = next_id + 1

OrderOperations_add_order_call(order_type, side, price, quantity) ==
    /\ Idle("ops")
    /\ UNCHANGED threads
    /\ next_id <= MaxOrders
    /\ order_type = "Market" => price = 0
    /\ AddOrderReturns(NewOrder(next_id, order_type, side, price, quantity),
                       OrderOperations_add_order(
                           NewOrder(next_id, order_type, side, price, quantity),
                           bids, asks, order_locations))
    /\ UNCHANGED <<api, last_trade_price, total_trades, total_volume, pc, modifies>>

OrderOperations_cancel_order(order_id) ==
    /\ Idle("ops")
    /\ UNCHANGED threads
    /\ CancelOrder("cancel_order", order_id)
    /\ UNCHANGED <<api, last_trade_price, total_trades, total_volume, next_id,
                   modifies>>

\* modify_order_with_price_change hands back what its add_order returned
ReAddReturns(order_id, order, r) ==
    /\ pc' = pc
    /\ bids' = r.bids
    /\ asks' = r.asks
    /\ order_locations' = r.locs
    /\ result' = IF r.err # ""
                 THEN Result("modify_order", "Err", r.err, <<>>, NoOrder, 0)
                 ELSE Result("modify_order", "Ok", "", r.events, order, order_id)

\* OrderOperations::modify_order_with_price_change
ModifyWithPriceChange(order_id, new_price, new_quantity) ==
    IF order_id \notin DOMAIN order_locations
    THEN /\ result' = Result("modify_order", "Err", "OrderNotFound", <<>>, NoOrder, 0)
         /\ UNCHANGED <<bids, asks, order_locations, pc>>
    ELSE LET location == order_locations[order_id]
             price_levels == OwnOf(location.side)
             present == location.price \in DOMAIN price_levels
             rm == PriceLevel_remove_order(price_levels[location.price], order_id)
             removed == [price_levels EXCEPT ![location.price] = rm.level]
             repriced == [rm.order EXCEPT !.price = new_price]
             bad_quantity == new_quantity # None
                             /\ (new_quantity = 0
                                 \/ new_quantity < repriced.filled_quantity)
             order == IF new_quantity = None THEN repriced
                      ELSE [repriced EXCEPT
                              !.remaining_quantity = new_quantity - repriced.filled_quantity,
                              !.original_quantity = new_quantity]
             b0 == IF location.side = "Buy" THEN removed ELSE bids
             a0 == IF location.side = "Sell" THEN removed ELSE asks
         IN IF ~(present /\ rm.found)
            THEN /\ result' = Result("modify_order", "Err", "OrderNotFound", <<>>,
                                     NoOrder, 0)
                 /\ UNCHANGED <<bids, asks, order_locations, pc>>
            ELSE IF bad_quantity
            THEN /\ result' = Result("modify_order", "Err", "InvalidQuantity", <<>>,
                                     NoOrder, 0)
                 /\ bids' = b0
                 /\ asks' = a0
                 /\ UNCHANGED <<order_locations, pc>>
            ELSE IF is_empty(rm.level)
            THEN /\ result' = Result("modify_order", "Blocked", "", <<>>, NoOrder,
                                     order_id)
                 /\ pc' = "blocked"
                 /\ bids' = b0
                 /\ asks' = a0
                 /\ UNCHANGED order_locations
            ELSE ReAddReturns(order_id, order,
                     OrderOperations_add_order(order, b0, a0,
                         MapRemove(order_locations, order_id)))

\* OrderOperations::modify_order_quantity_only
ModifyQuantityOnly(order_id, new_quantity) ==
    /\ UNCHANGED <<order_locations, pc>>
    /\ IF new_quantity = 0
       THEN /\ result' = Result("modify_order", "Err", "InvalidQuantity", <<>>,
                                NoOrder, 0)
            /\ UNCHANGED <<bids, asks>>
       ELSE IF order_id \notin DOMAIN order_locations
       THEN /\ result' = Result("modify_order", "Err", "OrderNotFound", <<>>,
                                NoOrder, 0)
            /\ UNCHANGED <<bids, asks>>
       ELSE LET location == order_locations[order_id]
                price_levels == OwnOf(location.side)
                present == location.price \in DOMAIN price_levels
                md == PriceLevel_modify_order_quantity(price_levels[location.price],
                                                       order_id, new_quantity)
            IN IF present /\ md.found
               THEN /\ SetSides(location.side,
                                [price_levels EXCEPT ![location.price] = md.level],
                                OppositeOf(location.side))
                    /\ result' = Result("modify_order", "Ok", "",
                                   <<OrderModified(order_id, None, new_quantity)>>,
                                   NoOrder, order_id)
               ELSE /\ result' = Result("modify_order", "Err", "OrderNotFound", <<>>,
                                        NoOrder, 0)
                    /\ UNCHANGED <<bids, asks>>

OrderOperations_modify_order(order_id, new_price, new_quantity) ==
    /\ Idle("ops")
    /\ UNCHANGED threads
    /\ ModifyCall
    /\ UNCHANGED <<api, last_trade_price, total_trades, total_volume, next_id>>
    /\ IF new_price # None
       THEN ModifyWithPriceChange(order_id, new_price, new_quantity)
       ELSE IF new_quantity # None
       THEN ModifyQuantityOnly(order_id, new_quantity)
       ELSE /\ result' = Result("modify_order", "Err", "InvalidOrderState", <<>>,
                                NoOrder, 0)
            /\ UNCHANGED <<bids, asks, order_locations, pc>>

\* ------------------------------------------------------- the state machine
InitMaps ==
    /\ bids = EmptyMap
    /\ asks = EmptyMap
    /\ order_locations = EmptyMap
    /\ last_trade_price = 0
    /\ total_trades = 0
    /\ total_volume = 0
    /\ next_id = 1
    /\ modifies = 0
    /\ pc = "idle"
    /\ result = Result("none", "None", "", <<>>, NoOrder, 0)
    /\ threads = EmptyMap

\* an OrderBook and its private maps
Init == api = "book" /\ InitMaps

\* the maps a caller hands to OrderOperations
InitOps == api = "ops" /\ InitMaps

InitAll == api \in {"book", "ops"} /\ InitMaps

Symbols == {Symbol, "OTHER"}

Next ==
    \/ \E sym \in Symbols, side \in Side, price \in 0..MaxPrice, q \in 0..MaxQty :
          OrderBook_add_limit_order(sym, side, price, q)
    \/ \E sym \in Symbols, side \in Side, q \in 0..MaxQty, t \in {"Market", "Limit"} :
          OrderBook_add_market_order(sym, side, q, t)
    \/ \E id \in 1..MaxOrders : OrderBook_cancel_order(id)
    \/ \E id \in 1..MaxOrders, q \in 0..MaxQty : OrderBook_modify_order_quantity(id, q)

NextOps ==
    \/ \E t \in OrderTypes, side \in Side, price \in 0..MaxPrice, q \in 0..MaxQty :
          OrderOperations_add_order_call(t, side, price, q)
    \/ \E id \in 1..MaxOrders : OrderOperations_cancel_order(id)
    \/ \E id \in 1..MaxOrders, price \in {None} \cup (0..MaxPrice),
          q \in {None} \cup (0..MaxQty) : OrderOperations_modify_order(id, price, q)

NextAll == Next \/ NextOps

Spec == Init /\ [][Next]_vars

SpecOps == InitOps /\ [][NextOps]_vars

SpecAll == InitAll /\ [][NextAll]_vars

\* ------------------------------------------- OrderBook: concurrent calls
\* Two threads call add_limit_order on one book, each with its own order. A
\* call takes no lock for its whole length: match_order works on the opposite
\* side and add_order_to_book on the own side, and another thread can run
\* between the two. Each of the two is one step here.
Threads == {"Buy", "Sell"}

At(t) == threads.calls[t].at

\* two threads start, one with a Buy at price p and one with a Sell at price q
SpawnAddLimit(p, q, buy_quantity, sell_quantity) ==
    /\ Idle("book")
    /\ next_id + 1 <= MaxOrders
    /\ pc' = "threads"
    /\ next_id' = next_id + 2
    /\ threads' =
          [start |-> [bids |-> bids, asks |-> asks, locs |-> order_locations],
           calls |-> [t \in Threads |->
              [at |-> "match", events |-> <<>>,
               order |-> IF t = "Buy"
                         THEN new_limit(next_id, Symbol, "Buy", p, buy_quantity)
                         ELSE new_limit(next_id + 1, Symbol, "Sell", q,
                                        sell_quantity)]]]
    /\ UNCHANGED <<api, bids, asks, order_locations, last_trade_price,
                   total_trades, total_volume, modifies, result>>

\* thread t has run match_order, which returned m
ThreadMatched(t, m) ==
    /\ SetSides(OppSide(t), m.opp, OwnOf(t))
    /\ order_locations' = m.locs
    /\ last_trade_price' = IF m.status = "ok" THEN StatsAfter(m.trades).last_trade_price
                           ELSE last_trade_price
    /\ total_trades' = IF m.status = "ok" THEN StatsAfter(m.trades).total_trades
                       ELSE total_trades
    /\ total_volume' = IF m.status = "ok" THEN StatsAfter(m.trades).total_volume
                       ELSE total_volume
    /\ threads' = [threads EXCEPT !.calls[t] =
          [at |-> IF m.status = "blocked" THEN "blocked"
                  ELSE IF m.status # "ok" \/ m.order.remaining_quantity = 0
                  THEN "returned" ELSE "rest",
           events |-> IF m.status = "ok" THEN m.trades ELSE <<>>,
           order |-> m.order]]

\* add_limit_order of thread t: `let trades = self.match_order(&mut order)?`
ThreadMatch(t) ==
    /\ pc = "threads"
    /\ At(t) = "match"
    /\ ThreadMatched(t, OrderBook_match_order(threads.calls[t].order, OppositeOf(t),
                                             order_locations))
    /\ UNCHANGED <<api, next_id, modifies, pc, result>>

\* add_limit_order of thread t: add_order_to_book, OrderAdded and the return
ThreadRest(t) ==
    /\ pc = "threads"
    /\ At(t) = "rest"
    /\ LET order == threads.calls[t].order
           added == OrderBook_add_order_to_book(order, OwnOf(t), order_locations)
       IN /\ SetSides(t, added.levels, OppositeOf(t))
          /\ order_locations' = added.locs
          /\ threads' = [threads EXCEPT !.calls[t].at = "returned",
                                        !.calls[t].events = Append(@, OrderAdded(order))]
    /\ UNCHANGED <<api, last_trade_price, total_trades, total_volume, next_id,
                   modifies, pc, result>>

NextThreads ==
    \/ \E side \in Side, price \in 1..MaxPrice, q \in 1..MaxQty :
          OrderBook_add_limit_order(Symbol, side, price, q)
    \/ \E p \in 1..MaxPrice, q \in 1..MaxPrice, bq \in 1..MaxQty, sq \in 1..MaxQty :
          SpawnAddLimit(p, q, bq, sq)
    \/ \E t \in Threads : ThreadMatch(t)
    \/ \E t \in Threads : ThreadRest(t)

SpecThreads == Init /\ [][NextThreads]_vars

\* -------------------------------------- OrderOperations: concurrent calls
\* One thread gives a FillOrKill order to add_order while another calls
\* cancel_order on the same maps. match_fok_order first adds up what the
\* opposite levels hold (calculate_available_quantity) and then takes from
\* them (match_limit_order); no lock is held from the one to the other, so
\* the cancel can run in between. The levels are Arcs shared with the map,
\* and a cancel adds no level, so what the thread reads through its
\* opposite_levels is what the map holds.
FokThreads == {"fok", "cancel"}

SpawnFok(side, price, quantity, order_id) ==
    /\ Idle("ops")
    /\ next_id <= MaxOrders
    /\ pc' = "threads"
    /\ next_id' = next_id + 1
    /\ threads' =
          [start |-> [bids |-> bids, asks |-> asks, locs |-> order_locations],
           calls |-> [t \in FokThreads |->
              IF t = "fok"
              THEN [at |-> "check", events |-> <<>>,
                    order |-> NewOrder(next_id, "FillOrKill", side, price, quantity)]
              ELSE [at |-> "start", events |-> <<>>, order_id |-> order_id]]]
    /\ UNCHANGED <<api, bids, asks, order_locations, last_trade_price,
                   total_trades, total_volume, modifies, result>>

\* add_order of the fok thread returns r
FokReturns(r) ==
    /\ bids' = r.bids
    /\ asks' = r.asks
    /\ order_locations' = r.locs
    /\ threads' = [threads EXCEPT !.calls["fok"].at = "returned",
                                  !.calls["fok"].events = r.events]

\* match_fok_order up to its test of total_available: too little cancels the
\* order, and add_order returns after match_order's clean-up
FokCheck ==
    /\ pc = "threads"
    /\ "fok" \in DOMAIN threads.calls
    /\ At("fok") = "check"
    /\ LET order == threads.calls["fok"].order
           opp == OppositeOf(order.side)
       IN IF MatchingEngine_calculate_available_quantity(order, opp)
                < order.remaining_quantity
          THEN FokReturns(AddOrderMatched(order, bids, asks, order_locations,
                              Cleaned([order |-> cancel(order), opp |-> opp,
                                       trades |-> <<>>])))
          ELSE /\ threads' = [threads EXCEPT !.calls["fok"].at = "match"]
               /\ UNCHANGED <<bids, asks, order_locations>>
    /\ UNCHANGED <<api, last_trade_price, total_trades, total_volume, next_id,
                   modifies, pc, result>>

\* match_fok_order's match_limit_order, then the rest of add_order
FokMatch ==
    /\ pc = "threads"
    /\ "fok" \in DOMAIN threads.calls
    /\ At("fok") = "match"
    /\ FokReturns(AddOrderMatched(threads.calls["fok"].order, bids, asks,
                      order_locations,
                      Cleaned(MatchingEngine_match_limit_order(
                                  threads.calls["fok"].order,
                                  OppositeOf(threads.calls["fok"].order.side)))))
    /\ UNCHANGED <<api, last_trade_price, total_trades, total_volume, next_id,
                   modifies, pc, result>>

\* cancel_order of the cancel thread, as one step
FokCancel ==
    /\ pc = "threads"
    /\ "cancel" \in DOMAIN threads.calls
    /\ At("cancel") = "start"
    /\ CancelOrder("cancel_order", threads.calls["cancel"].order_id)
    /\ threads' = [threads EXCEPT !.calls["cancel"].at = "returned"]
    /\ UNCHANGED <<api, last_trade_price, total_trades, total_volume, next_id,
                   modifies>>

NextFok ==
    \/ \E side \in Side, price \in 1..MaxPrice, q \in 1..MaxQty :
          OrderOperations_add_order_call("Limit", side, price, q)
    \/ \E side \in Side, price \in 1..MaxPrice, q \in 1..MaxQty,
          id \in 1..MaxOrders : SpawnFok(side, price, q, id)
    \/ FokCheck
    \/ FokMatch
    \/ FokCancel

SpecFok == InitOps /\ [][NextFok]_vars

\* OrderBook::last_trade_price(): None while the stored price is 0
OrderBook_last_trade_price == IF last_trade_price = 0 THEN None ELSE last_trade_price

\* ------------------------------------- OrderBook: snapshot beside a writer
\* A reader thread calls snapshot() while a writer thread is inside
\* add_limit_order or cancel_order. snapshot walks bids, then asks; for each
\* entry it holds that entry's shard read lock and get_depth_info loads
\* total_quantity and order_count one after the other, without the queue's
\* lock. The writer's match_order is one step; add_order_to_book and
\* remove_order are the steps of their map call, queue update and two
\* atomic updates.
Reader == threads.calls["reader"]

Writer == threads.calls["writer"]

\* the reader holds the read lock of the entry at this price of this side, so
\* entry() and remove() on it wait
Held(side, price) ==
    Reader.at = "count" /\ Reader.side = side /\ Reader.price = price

NewReader ==
    [at |-> "quantity", side |-> "Buy", visited |-> {}, price |-> 0,
     quantity |-> 0, bids |-> <<>>, asks |-> <<>>, last_trade_price |-> None]

\* the calls start: the writer with add_limit_order of a new order
SpawnSnapshotAdd(side, price, quantity) ==
    /\ Idle("book")
    /\ next_id <= MaxOrders
    /\ pc' = "threads"
    /\ next_id' = next_id + 1
    /\ threads' = [calls |->
          [t \in {"writer", "reader"} |->
              IF t = "reader" THEN NewReader
              ELSE [at |-> "match", op |-> "add_limit_order", events |-> <<>>,
                    err |-> "",
                    order |-> new_limit(next_id, Symbol, side, price, quantity)]]]
    /\ UNCHANGED <<api, bids, asks, order_locations, last_trade_price,
                   total_trades, total_volume, modifies, result>>

\* the calls start: the writer with cancel_order(order_id)
SpawnSnapshotCancel(order_id) ==
    /\ Idle("book")
    /\ pc' = "threads"
    /\ threads' = [calls |->
          [t \in {"writer", "reader"} |->
              IF t = "reader" THEN NewReader
              ELSE [at |-> "unlocate", op |-> "cancel_order", events |-> <<>>,
                    err |-> "",
                    order |-> new_limit(order_id, Symbol, "Buy", 0, 0)]]]
    /\ UNCHANGED <<api, bids, asks, order_locations, last_trade_price,
                   total_trades, total_volume, next_id, modifies, result>>

WriterAt(op, at) ==
    /\ pc = "threads"
    /\ "writer" \in DOMAIN threads.calls
    /\ Writer.op = op
    /\ Writer.at = at

\* the writer's level, which add_order_to_book and cancel_order reach through
\* the map of the order's side
WriterLevel == OwnOf(Writer.order.side)[Writer.order.price]

SetWriterLevel(level) ==
    SetSides(Writer.order.side,
             [OwnOf(Writer.order.side) EXCEPT ![Writer.order.price] = level],
             OppositeOf(Writer.order.side))

\* add_limit_order: `let trades = self.match_order(&mut order)?`
WriterMatch ==
    /\ WriterAt("add_limit_order", "match")
    /\ LET order == Writer.order
           m == OrderBook_match_order(order, OppositeOf(order.side), order_locations)
       IN /\ SetSides(OppSide(order.side), m.opp, OwnOf(order.side))
          /\ order_locations' = m.locs
          /\ last_trade_price' = IF m.status = "ok"
                                 THEN StatsAfter(m.trades).last_trade_price
                                 ELSE last_trade_price
          /\ total_trades' = IF m.status = "ok" THEN StatsAfter(m.trades).total_trades
                             ELSE total_trades
          /\ total_volume' = IF m.status = "ok" THEN StatsAfter(m.trades).total_volume
                             ELSE total_volume
          /\ threads' = [threads EXCEPT
                !.calls["writer"].at =
                    IF m.status = "blocked" THEN "blocked"
                    ELSE IF m.status # "ok" \/ m.order.remaining_quantity = 0
                    THEN "returned" ELSE "entry",
                !.calls["writer"].events = IF m.status = "ok" THEN m.trades ELSE <<>>,
                !.calls["writer"].order = m.order]
    /\ UNCHANGED <<api, next_id, modifies, pc, result>>

\* add_order_to_book: price_levels.entry(price).or_insert_with(PriceLevel::new)
WriterEntry ==
    /\ WriterAt("add_limit_order", "entry")
    /\ ~Held(Writer.order.side, Writer.order.price)
    /\ LET price_levels == OwnOf(Writer.order.side)
       IN SetSides(Writer.order.side,
                   IF Writer.order.price \in DOMAIN price_levels THEN price_levels
                   ELSE MapPut(price_levels, Writer.order.price, PriceLevel_new),
                   OppositeOf(Writer.order.side))
    /\ threads' = [threads EXCEPT !.calls["writer"].at = "push"]
    /\ UNCHANGED <<api, order_locations, last_trade_price, total_trades,
                   total_volume, next_id, modifies, pc, result>>

\* PriceLevel::add_order: orders.push_back(order) under the queue's lock
WriterPush ==
    /\ WriterAt("add_limit_order", "push")
    /\ SetWriterLevel([WriterLevel EXCEPT !.orders = Append(@, Writer.order)])
    /\ threads' = [threads EXCEPT !.calls["writer"].at = "add_quantity"]
    /\ UNCHANGED <<api, order_locations, last_trade_price, total_trades,
                   total_volume, next_id, modifies, pc, result>>

\* PriceLevel::add_order: total_quantity.fetch_add(quantity)
WriterAddQuantity ==
    /\ WriterAt("add_limit_order", "add_quantity")
    /\ SetWriterLevel([WriterLevel EXCEPT
                          !.total_quantity = @ + Writer.order.remaining_quantity])
    /\ threads' = [threads EXCEPT !.calls["writer"].at = "add_count"]
    /\ UNCHANGED <<api, order_locations, last_trade_price, total_trades,
                   total_volume, next_id, modifies, pc, result>>

\* PriceLevel::add_order: order_count.fetch_add(1); then order_locations.insert,
\* the OrderAdded event and the return of add_limit_order
WriterAddCount ==
    /\ WriterAt("add_limit_order", "add_count")
    /\ SetWriterLevel([WriterLevel EXCEPT !.order_count = @ + 1])
    /\ order_locations' = MapPut(order_locations, Writer.order.id,
                                 [price |-> Writer.order.price,
                                  side |-> Writer.order.side])
    /\ threads' = [threads EXCEPT
          !.calls["writer"].at = "returned",
          !.calls["writer"].events = Append(@, OrderAdded(Writer.order))]
    /\ UNCHANGED <<api, last_trade_price, total_trades, total_volume, next_id,
                   modifies, pc, result>>

\* cancel_order: self.order_locations.remove(order_id)
WriterUnlocate ==
    /\ WriterAt("cancel_order", "unlocate")
    /\ LET order_id == Writer.order.id
       IN IF order_id \notin DOMAIN order_locations
          THEN /\ threads' = [threads EXCEPT !.calls["writer"].at = "returned",
                                             !.calls["writer"].err = "OrderNotFound"]
               /\ UNCHANGED order_locations
          ELSE /\ order_locations' = MapRemove(order_locations, order_id)
               /\ threads' = [threads EXCEPT
                     !.calls["writer"].at = "remove",
                     !.calls["writer"].order.side = order_locations[order_id].side,
                     !.calls["writer"].order.price = order_locations[order_id].price]
    /\ UNCHANGED <<api, bids, asks, last_trade_price, total_trades, total_volume,
                   next_id, modifies, pc, result>>

\* cancel_order: price_levels.get(&location.price), then PriceLevel::remove_order
\* as far as orders.remove(pos) and total_quantity.fetch_sub
WriterRemove ==
    /\ WriterAt("cancel_order", "remove")
    /\ LET present == Writer.order.price \in DOMAIN OwnOf(Writer.order.side)
           rm == PriceLevel_remove_order(WriterLevel, Writer.order.id)
       IN IF present /\ rm.found
          THEN /\ SetWriterLevel([rm.level EXCEPT
                                     !.order_count = WriterLevel.order_count])
               /\ threads' = [threads EXCEPT !.calls["writer"].at = "sub_count",
                                             !.calls["writer"].order = rm.order]
          ELSE /\ threads' = [threads EXCEPT !.calls["writer"].at = "returned",
                                             !.calls["writer"].err = "OrderNotFound"]
               /\ UNCHANGED <<bids, asks>>
    /\ UNCHANGED <<api, order_locations, last_trade_price, total_trades,
                   total_volume, next_id, modifies, pc, result>>

\* PriceLevel::remove_order: order_count.fetch_sub(1); then cancel_order's
\* level.is_empty() and, with the Ref `level` still held, price_levels.remove
WriterSubCount ==
    /\ WriterAt("cancel_order", "sub_count")
    /\ LET level == [WriterLevel EXCEPT !.order_count = @ - 1]
       IN /\ SetWriterLevel(level)
          /\ threads' = [threads EXCEPT
                !.calls["writer"].at = IF is_empty(level) THEN "blocked"
                                       ELSE "returned",
                !.calls["writer"].events =
                    IF is_empty(level) THEN <<>>
                    ELSE <<OrderCancelled(Writer.order.id,
                                          Writer.order.remaining_quantity)>>]
    /\ UNCHANGED <<api, order_locations, last_trade_price, total_trades,
                   total_volume, next_id, modifies, pc, result>>

ReaderAt(at) ==
    /\ pc = "threads"
    /\ "reader" \in DOMAIN threads.calls
    /\ Reader.at = at

\* snapshot: the iterator comes to the entry at `price`;
\* get_depth_info: self.total_quantity()
ReaderLoadQuantity(price) ==
    /\ ReaderAt("quantity")
    /\ price \in DOMAIN OwnOf(Reader.side) \ Reader.visited
    /\ threads' = [threads EXCEPT
          !.calls["reader"].at = "count",
          !.calls["reader"].price = price,
          !.calls["reader"].quantity = OwnOf(Reader.side)[price].total_quantity]
    /\ UNCHANGED <<api, bids, asks, order_locations, last_trade_price,
                   total_trades, total_volume, next_id, modifies, pc, result>>

PriceLevelInfo(price, quantity, order_count) ==
    [price |-> price, quantity |-> quantity, order_count |-> order_count]

\* get_depth_info: self.order_count(); the PriceLevelInfo is collected
ReaderLoadCount ==
    /\ ReaderAt("count")
    /\ LET info == PriceLevelInfo(Reader.price, Reader.quantity,
                                  OwnOf(Reader.side)[Reader.price].order_count)
       IN threads' = [threads EXCEPT
             !.calls["reader"].at = "quantity",
             !.calls["reader"].visited = @ \cup {Reader.price},
             !.calls["reader"].bids = IF Reader.side = "Buy" THEN Append(@, info)
                                      ELSE @,
             !.calls["reader"].asks = IF Reader.side = "Sell" THEN Append(@, info)
                                      ELSE @]
    /\ UNCHANGED <<api, bids, asks, order_locations, last_trade_price,
                   total_trades, total_volume, next_id, modifies, pc, result>>

\* snapshot: the walk of self.bids is over, the walk of self.asks begins
ReaderTurnsToAsks ==
    /\ ReaderAt("quantity")
    /\ Reader.side = "Buy"
    /\ DOMAIN bids \ Reader.visited = {}
    /\ threads' = [threads EXCEPT !.calls["reader"].side = "Sell",
                                  !.calls["reader"].visited = {}]
    /\ UNCHANGED <<api, bids, asks, order_locations, last_trade_price,
                   total_trades, total_volume, next_id, modifies, pc, result>>

\* the infos in the order of these prices
InPriceOrder(infos, prices) ==
    [i \in 1..Len(prices) |->
        infos[CHOOSE j \in 1..Len(infos) : infos[j].price = prices[i]]]

\* snapshot: both walks are over; bids are sorted by price descending, asks
\* ascending, and the BookSnapshot is returned with last_trade_price()
ReaderReturns ==
    /\ ReaderAt("quantity")
    /\ Reader.side = "Sell"
    /\ DOMAIN asks \ Reader.visited = {}
    /\ threads' = [threads EXCEPT
          !.calls["reader"].at = "returned",
          !.calls["reader"].bids =
              InPriceOrder(@, SortDesc({@[i].price : i \in 1..Len(@)})),
          !.calls["reader"].asks =
              InPriceOrder(@, SortAsc({@[i].price : i \in 1..Len(@)})),
          !.calls["reader"].last_trade_price = OrderBook_last_trade_price]
    /\ UNCHANGED <<api, bids, asks, order_locations, last_trade_price,
                   total_trades, total_volume, next_id, modifies, pc, result>>

NextSnapshot ==
    \/ \E side \in Side, price \in 1..MaxPrice, q \in 1..MaxQty :
          OrderBook_add_limit_order(Symbol, side, price, q)
    \/ \E side \in Side, price \in 1..MaxPrice, q \in 1..MaxQty :
          SpawnSnapshotAdd(side, price, q)
    \/ \E order_id \in 1..MaxOrders : SpawnSnapshotCancel(order_id)
    \/ WriterMatch
    \/ WriterEntry
    \/ WriterPush
    \/ WriterAddQuantity
    \/ WriterAddCount
    \/ WriterUnlocate
    \/ WriterRemove
    \/ WriterSubCount
    \/ \E price \in 0..MaxPrice : ReaderLoadQuantity(price)
    \/ ReaderLoadCount
    \/ ReaderTurnsToAsks
    \/ ReaderReturns

SpecSnapshot == Init /\ [][NextSnapshot]_vars

\* ------------------------------------ OrderBook: calls racing on a level
\* Threads "a" and "b" are inside add_limit_order, thread "c" inside
\* cancel_order, all on one OrderBook. The steps are those between which
\* another thread can run: a call on a DashMap, a method of PriceLevel that
\* holds the queue's lock for its whole length (take_quantity, remove_order,
\* the push_back of add_order), a load or update of an atomic counter. A Ref
\* into a side map is a read lock on that entry's shard; entry() and remove()
\* need the write lock. total_quantity and order_count are u64 counters that
\* wrap around: a value below 0 stands for 2^64 less that much. `emptied`
\* records that the thread's take_quantity or remove_order left the queue
\* empty.
Racers == {"a", "b", "c"}

Racing(t) == pc = "threads" /\ t \in DOMAIN threads.calls

RaceAt(t, op, at) ==
    /\ Racing(t)
    /\ threads.calls[t].op = op
    /\ threads.calls[t].at = at

NewAdder(order) ==
    [op |-> "add_limit_order", at |-> "prices", order |-> order, prices |-> <<>>,
     price |-> 0, match_quantity |-> 0, fills |-> <<>>, trades |-> <<>>,
     events |-> <<>>, err |-> "", emptied |-> FALSE]

NewCanceller(order_id) ==
    [op |-> "cancel_order", at |-> "unlocate", order |-> NoOrder, prices |-> <<>>,
     price |-> 0, match_quantity |-> order_id, fills |-> <<>>, trades |-> <<>>,
     events |-> <<>>, err |-> "", emptied |-> FALSE]

BookAtStart == [bids |-> bids, asks |-> asks, locs |-> order_locations]

\* two threads call add_limit_order, each with an order of its own
SpawnAdders(first, second) ==
    /\ Idle("book")
    /\ next_id + 1 <= MaxOrders
    /\ pc' = "threads"
    /\ next_id' = next_id + 2
    /\ threads' = [start |-> BookAtStart,
                   calls |-> [t \in {"a", "b"} |->
                                 IF t = "a" THEN NewAdder(first)
                                 ELSE NewAdder(second)]]
    /\ UNCHANGED <<api, bids, asks, order_locations, last_trade_price,
                   total_trades, total_volume, modifies, result>>

\* one thread calls add_limit_order, another cancel_order(order_id)
SpawnAdderAndCanceller(order, order_id) ==
    /\ Idle("book")
    /\ next_id <= MaxOrders
    /\ pc' = "threads"
    /\ next_id' = next_id + 1
    /\ threads' = [start |-> BookAtStart,
                   calls |-> [t \in {"a", "c"} |->
                                 IF t = "a" THEN NewAdder(order)
                                 ELSE NewCanceller(order_id)]]
    /\ UNCHANGED <<api, bids, asks, order_locations, last_trade_price,
                   total_trades, total_volume, modifies, result>>

\* thread t holds a Ref to the entry at `price` of the side map of `side`
HoldsRef(t, side, price) ==
    LET call == threads.calls[t]
    IN IF call.op = "add_limit_order"
       THEN /\ call.at \in {"take", "account", "blocked"}
            /\ OppSide(call.order.side) = side
            /\ call.price = price
       ELSE /\ call.at \in {"cleanup", "blocked"}
            /\ call.order.side = side
            /\ call.price = price

\* `let match_quantity = order.remaining_quantity.min(available_quantity)`,
\* the loaded counter being a u64
MatchQuantity_available(order, available_quantity) ==
    IF available_quantity < 0 THEN order.remaining_quantity + 1
    ELSE available_quantity

MatchQuantity(order, available_quantity) ==
    IF available_quantity < 0 THEN order.remaining_quantity
    ELSE Min(order.remaining_quantity, available_quantity)

RaceUnchanged ==
    UNCHANGED <<api, next_id, modifies, pc, result>>

\* match_order: `opposite_side.iter().map(|entry| *entry.key()).collect()` and
\* the sort
RacePrices(t) ==
    /\ RaceAt(t, "add_limit_order", "prices")
    /\ threads' = [threads EXCEPT
          !.calls[t].at = "level",
          !.calls[t].prices = SortedPrices(threads.calls[t].order,
                                           OppositeOf(threads.calls[t].order.side))]
    /\ UNCHANGED <<bids, asks, order_locations, last_trade_price, total_trades,
                   total_volume>>
    /\ RaceUnchanged

\* match_order: the head of `for price in prices` down to
\* `let match_quantity = ...`: the breaks, opposite_side.get(&price) and
\* level.total_quantity()
RaceLevel(t) ==
    /\ RaceAt(t, "add_limit_order", "level")
    /\ LET call == threads.calls[t]
           order == call.order
           opp == OppositeOf(order.side)
           price == Head(call.prices)
       IN threads' = [threads EXCEPT !.calls[t] =
             IF call.prices = <<>> \/ order.remaining_quantity = 0
                \/ ~can_match(order, price)
             THEN [call EXCEPT !.at = "stats"]
             ELSE IF price \notin DOMAIN opp \/ total_quantity_of(opp[price]) = 0
             THEN [call EXCEPT !.prices = Tail(@)]
             ELSE [call EXCEPT
                     !.at = "take",
                     !.prices = Tail(@),
                     !.price = price,
                     !.match_quantity =
                         MatchQuantity(order, total_quantity_of(opp[price]))]]
    /\ UNCHANGED <<bids, asks, order_locations, last_trade_price, total_trades,
                   total_volume>>
    /\ RaceUnchanged

\* match_order: `let fills = level.take_quantity(match_quantity)`
RaceTake(t) ==
    /\ RaceAt(t, "add_limit_order", "take")
    /\ LET call == threads.calls[t]
           opp == OppositeOf(call.order.side)
           tk == PriceLevel_take_quantity(opp[call.price], call.match_quantity)
       IN /\ SetSides(OppSide(call.order.side),
                      [opp EXCEPT ![call.price] = tk.level],
                      OwnOf(call.order.side))
          /\ threads' = [threads EXCEPT
                !.calls[t].at = "account",
                !.calls[t].fills = tk.fills,
                !.calls[t].emptied = @ \/ tk.level.orders = <<>>]
    /\ UNCHANGED <<order_locations, last_trade_price, total_trades, total_volume>>
    /\ RaceUnchanged

\* match_order: `for (matched_order, fill_quantity) in fills`, then
\* `if level.is_empty() { opposite_side.remove(&price); }` under the Ref
RaceAccount(t) ==
    /\ RaceAt(t, "add_limit_order", "account")
    /\ LET call == threads.calls[t]
           fl == BookFillLoop(call.order, order_locations, call.fills, call.price,
                              call.trades)
           level == OppositeOf(call.order.side)[call.price]
       IN /\ order_locations' = fl.locs
          /\ threads' = [threads EXCEPT !.calls[t] =
                [call EXCEPT
                    !.at = IF ~fl.ok THEN "returned"
                           ELSE IF is_empty(level) THEN "blocked" ELSE "level",
                    !.err = IF fl.ok THEN "" ELSE "Cannot fill more than remaining quantity",
                    !.order = fl.order,
                    !.trades = fl.trades,
                    !.fills = <<>>]]
    /\ UNCHANGED <<bids, asks, last_trade_price, total_trades, total_volume>>
    /\ RaceUnchanged

\* match_order: "Update statistics" and the return; add_limit_order: the Trade
\* events, and the return when nothing remains
RaceStats(t) ==
    /\ RaceAt(t, "add_limit_order", "stats")
    /\ LET call == threads.calls[t]
       IN /\ last_trade_price' = StatsAfter(call.trades).last_trade_price
          /\ total_trades' = StatsAfter(call.trades).total_trades
          /\ total_volume' = StatsAfter(call.trades).total_volume
          /\ threads' = [threads EXCEPT
                !.calls[t].at = IF call.order.remaining_quantity > 0 THEN "entry"
                                ELSE "returned",
                !.calls[t].events = call.trades]
    /\ UNCHANGED <<bids, asks, order_locations>>
    /\ RaceUnchanged

\* add_order_to_book: price_levels.entry(price).or_insert_with(..).clone()
RaceEntry(t) ==
    /\ RaceAt(t, "add_limit_order", "entry")
    /\ LET order == threads.calls[t].order
           price_levels == OwnOf(order.side)
       IN /\ \A u \in DOMAIN threads.calls : ~HoldsRef(u, order.side, order.price)
          /\ SetSides(order.side,
                      IF order.price \in DOMAIN price_levels THEN price_levels
                      ELSE MapPut(price_levels, order.price, PriceLevel_new),
                      OppositeOf(order.side))
    /\ threads' = [threads EXCEPT !.calls[t].at = "push"]
    /\ UNCHANGED <<order_locations, last_trade_price, total_trades, total_volume>>
    /\ RaceUnchanged

\* a variant of the push_back step that queues nothing
RacePush_dropped(t) ==
    /\ RaceAt(t, "add_limit_order", "push")
    /\ threads' = [threads EXCEPT !.calls[t].at = "count"]
    /\ UNCHANGED <<bids, asks, order_locations, last_trade_price, total_trades,
                   total_volume>>
    /\ RaceUnchanged

\* PriceLevel::add_order: orders.push_back(order)
RacePush(t) ==
    /\ RaceAt(t, "add_limit_order", "push")
    /\ LET order == threads.calls[t].order
           price_levels == OwnOf(order.side)
       IN SetSides(order.side,
                   [price_levels EXCEPT ![order.price].orders = Append(@, order)],
                   OppositeOf(order.side))
    /\ threads' = [threads EXCEPT !.calls[t].at = "count"]
    /\ UNCHANGED <<order_locations, last_trade_price, total_trades, total_volume>>
    /\ RaceUnchanged

\* PriceLevel::add_order: the two fetch_add; add_order_to_book:
\* order_locations.insert; add_limit_order: OrderAdded and the return
RaceCount(t) ==
    /\ RaceAt(t, "add_limit_order", "count")
    /\ LET order == threads.calls[t].order
           price_levels == OwnOf(order.side)
       IN /\ SetSides(order.side,
                      [price_levels EXCEPT
                          ![order.price].total_quantity = @ + order.remaining_quantity,
                          ![order.price].order_count = @ + 1],
                      OppositeOf(order.side))
          /\ order_locations' = MapPut(order_locations, order.id,
                                       [price |-> order.price, side |-> order.side])
          /\ threads' = [threads EXCEPT
                !.calls[t].at = "returned",
                !.calls[t].events = Append(@, OrderAdded(order))]
    /\ UNCHANGED <<last_trade_price, total_trades, total_volume>>
    /\ RaceUnchanged

\* cancel_order: self.order_locations.remove(order_id)
RaceUnlocate ==
    /\ RaceAt("c", "cancel_order", "unlocate")
    /\ LET order_id == threads.calls["c"].match_quantity
       IN IF order_id \notin DOMAIN order_locations
          THEN /\ threads' = [threads EXCEPT !.calls["c"].at = "returned",
                                             !.calls["c"].err = "OrderNotFound"]
               /\ UNCHANGED order_locations
          ELSE /\ order_locations' = MapRemove(order_locations, order_id)
               /\ threads' = [threads EXCEPT
                     !.calls["c"].at = "remove",
                     !.calls["c"].order.id = order_id,
                     !.calls["c"].order.side = order_locations[order_id].side,
                     !.calls["c"].price = order_locations[order_id].price]
    /\ UNCHANGED <<bids, asks, last_trade_price, total_trades, total_volume>>
    /\ RaceUnchanged

\* cancel_order: price_levels.get(&location.price) and level.remove_order
RaceRemove ==
    /\ RaceAt("c", "cancel_order", "remove")
    /\ LET call == threads.calls["c"]
           price_levels == OwnOf(call.order.side)
           present == call.price \in DOMAIN price_levels
           rm == PriceLevel_remove_order(price_levels[call.price], call.order.id)
       IN IF present /\ rm.found
          THEN /\ SetSides(call.order.side,
                           [price_levels EXCEPT ![call.price] = rm.level],
                           OppositeOf(call.order.side))
               /\ threads' = [threads EXCEPT
                     !.calls["c"].at = "cleanup",
                     !.calls["c"].order = rm.order,
                     !.calls["c"].emptied = rm.level.orders = <<>>]
          ELSE /\ threads' = [threads EXCEPT !.calls["c"].at = "returned",
                                             !.calls["c"].err = "OrderNotFound"]
               /\ UNCHANGED <<bids, asks>>
    /\ UNCHANGED <<order_locations, last_trade_price, total_trades, total_volume>>
    /\ RaceUnchanged

\* cancel_order: order.cancel(), `if level.is_empty() { price_levels.remove }`
\* under the Ref, and the return
RaceCleanup ==
    /\ RaceAt("c", "cancel_order", "cleanup")
    /\ LET call == threads.calls["c"]
           level == OwnOf(call.order.side)[call.price]
       IN threads' = [threads EXCEPT !.calls["c"] =
             [call EXCEPT
                 !.at = IF is_empty(level) THEN "blocked" ELSE "returned",
                 !.order = cancel(call.order),
                 !.events = IF is_empty(level) THEN <<>>
                            ELSE <<OrderCancelled(call.order.id,
                                                  call.order.remaining_quantity)>>]]
    /\ UNCHANGED <<bids, asks, order_locations, last_trade_price, total_trades,
                   total_volume>>
    /\ RaceUnchanged

\* the orders the threads can be given
RaceOrders(id) ==
    {new_limit(id, Symbol, side, price, q) :
        side \in Side, price \in 1..MaxPrice, q \in 1..MaxQty}

NextRace ==
    \/ \E side \in Side, price \in 1..MaxPrice, q \in 1..MaxQty :
          OrderBook_add_limit_order(Symbol, side, price, q)
    \/ \E first \in RaceOrders(next_id), second \in RaceOrders(next_id + 1) :
          SpawnAdders(first, second)
    \/ \E order \in RaceOrders(next_id), order_id \in 1..MaxOrders :
          SpawnAdderAndCanceller(order, order_id)
    \/ \E t \in {"a", "b"} : RacePrices(t)
    \/ \E t \in {"a", "b"} : RaceLevel(t)
    \/ \E t \in {"a", "b"} : RaceTake(t)
    \/ \E t \in {"a", "b"} : RaceAccount(t)
    \/ \E t \in {"a", "b"} : RaceStats(t)
    \/ \E t \in {"a", "b"} : RaceEntry(t)
    \/ \E t \in {"a", "b"} : RacePush(t)
    \/ \E t \in {"a", "b"} : RaceCount(t)
    \/ RaceUnlocate
    \/ RaceRemove
    \/ RaceCleanup

SpecRace == Init /\ [][NextRace]_vars

\* ------------------------------------------------------ Order on its own
\* A caller builds one Order with Order::new_limit or Order::new_market and
\* calls fill and cancel on it, with quantities of its own choosing. The
\* order is kept in result.order, the last call and its argument in result.op
\* and result.target.
NewOrders ==
    {new_limit(1, Symbol, side, price, q) :
        side \in Side, price \in 1..MaxPrice, q \in 0..MaxQty}
    \cup {new_market(1, Symbol, side, q) : side \in Side, q \in 0..MaxQty}

InitOrder ==
    /\ api = "order"
    /\ bids = EmptyMap
    /\ asks = EmptyMap
    /\ order_locations = EmptyMap
    /\ last_trade_price = 0
    /\ total_trades = 0
    /\ total_volume = 0
    /\ next_id = 1
    /\ modifies = 0
    /\ pc = "idle"
    /\ threads = EmptyMap
    /\ \E order \in NewOrders : result = Result("new", "Ok", "", <<>>, order, 0)

TheOrder == result.order

OrderUnchanged ==
    UNCHANGED <<api, bids, asks, order_locations, last_trade_price,
                total_trades, total_volume, next_id, modifies, pc, threads>>

Order_fill_call(quantity) ==
    /\ Idle("order")
    /\ LET r == fill(TheOrder, quantity)
       IN result' = Result("fill", IF r.ok THEN "Ok" ELSE "Err",
                           IF r.ok THEN ""
                           ELSE "Cannot fill more than remaining quantity",
                           <<>>, r.order, quantity)
    /\ OrderUnchanged

Order_cancel_call ==
    /\ Idle("order")
    /\ result' = Result("cancel", "Ok", "", <<>>, cancel(TheOrder), 0)
    /\ OrderUnchanged

NextOrder ==
    \/ \E quantity \in 0..(MaxQty + 1) : Order_fill_call(quantity)
    \/ Order_cancel_call

SpecOrder == InitOrder /\ [][NextOrder]_vars

\* ------------------------------------------------- PriceLevel on its own
\* A caller holds one PriceLevel and calls its methods one at a time, with
\* orders, ids and quantities of its own choosing. The level is kept in bids
\* under its price.
LevelPrice == 1

TheLevel == bids[LevelPrice]

\* an Order as a caller can build it: `filled` of its quantity already filled
LevelOrder(id, quantity, filled) ==
    [new_limit(id, Symbol, "Buy", LevelPrice, quantity) EXCEPT
        !.remaining_quantity = quantity - filled,
        !.filled_quantity = filled,
        !.status = IF filled = 0 THEN "New"
                   ELSE IF filled = quantity THEN "Filled" ELSE "PartiallyFilled"]

InitLevel ==
    /\ api = "level"
    /\ bids = (LevelPrice :> PriceLevel_new)
    /\ asks = EmptyMap
    /\ order_locations = EmptyMap
    /\ last_trade_price = 0
    /\ total_trades = 0
    /\ total_volume = 0
    /\ next_id = 1
    /\ modifies = 0
    /\ pc = "idle"
    /\ result = Result("none", "None", "", <<>>, NoOrder, 0)
    /\ threads = EmptyMap

LevelCall(op, level, events, order, target) ==
    /\ Idle("level")
    /\ bids' = [bids EXCEPT ![LevelPrice] = level]
    /\ result' = Result(op, "Ok", "", events, order, target)
    /\ UNCHANGED <<api, asks, order_locations, last_trade_price, total_trades,
                   total_volume, next_id, pc, threads>>

PriceLevel_add_order_call(order) ==
    /\ Len(TheLevel.orders) < MaxOrders
    /\ LevelCall("add_order", PriceLevel_add_order(TheLevel, order), <<>>, order, 0)
    /\ UNCHANGED modifies

PriceLevel_remove_order_call(order_id) ==
    /\ LET rm == PriceLevel_remove_order(TheLevel, order_id)
       IN LevelCall("remove_order", rm.level, <<>>, rm.order, order_id)
    /\ UNCHANGED modifies

PriceLevel_take_quantity_call(requested_quantity) ==
    /\ LET taken == PriceLevel_take_quantity(TheLevel, requested_quantity)
       IN LevelCall("take_quantity", taken.level, taken.fills, NoOrder, 0)
    /\ UNCHANGED modifies

PriceLevel_modify_order_quantity_call(order_id, new_quantity) ==
    /\ modifies < MaxModifies
    /\ modifies' = modifies + 1
    /\ LET md == PriceLevel_modify_order_quantity(TheLevel, order_id, new_quantity)
       IN LevelCall("modify_order_quantity", md.level, <<>>, NoOrder, order_id)

NextLevel ==
    \/ \E id \in 1..MaxOrders, quantity \in 0..MaxQty :
          \E filled \in 0..quantity :
              PriceLevel_add_order_call(LevelOrder(id, quantity, filled))
    \/ \E id \in 1..MaxOrders : PriceLevel_remove_order_call(id)
    \/ \E q \in 0..(MaxQty + 1) : PriceLevel_take_quantity_call(q)
    \/ \E id \in 1..MaxOrders, q \in 0..MaxQty :
          PriceLevel_modify_order_quantity_call(id, q)

SpecLevel == InitLevel /\ [][NextLevel]_vars

\* ------------------------------------------------------------ read views
Max(S) == CHOOSE x \in S : \A y \in S : x >= y

MinOf(S) == CHOOSE x \in S : \A y \in S : x <= y

\* OrderBook::best_bid / best_ask, defined when the side holds a level
best_bid == Max(DOMAIN bids)

best_ask == MinOf(DOMAIN asks)

\* OrderBook::total_orders
total_orders == Cardinality(DOMAIN order_locations)

\* the last call returned (it is not stuck inside the map)
Returned == pc = "idle"

IsTrade(e) == e.type = "Trade"

Trades(r) == SelectSeq(r.events, IsTrade)

\* every order queued in some level of either side, as a set
OrdersIn(m) ==
    UNION {{m[p].orders[i] : i \in 1..Len(m[p].orders)} : p \in DOMAIN m}

QueuedOrders == OrdersIn(bids) \cup OrdersIn(asks)

RECURSIVE SumLen(_, _)
SumLen(m, S) ==
    IF S = {} THEN 0
    ELSE LET p == CHOOSE x \in S : TRUE
         IN Len(m[p].orders) + SumLen(m, S \ {p})

\* the number of orders queued in all levels of both sides
QueuedCount == SumLen(bids, DOMAIN bids) + SumLen(asks, DOMAIN asks)

\* ----------------------------------------------------------------- claims

\* C1: after a call of the OrderBook has returned, if both sides hold a level
\* then best_bid < best_ask (the book is not left crossed).
C1_NeverCrossed ==
    (api = "book" /\ Returned /\ DOMAIN bids # {} /\ DOMAIN asks # {})
        => best_bid < best_ask

\* ---- the last step was a call that matched: its aggressor and the side it took from
BookAdd == {"add_limit_order", "add_market_order"}

Aggressors == BookAdd \cup {"add_order", "modify_order"}

\* the step is a returned call whose order went through a matching loop
MatchedStep == result'.status = "Ok" /\ result'.op \in Aggressors /\ result'.order.id # 0

AggBuy == result'.order.side = "Buy"

OppPre == IF AggBuy THEN asks ELSE bids

OppPost == IF AggBuy THEN asks' ELSE bids'

\* price p is strictly better than q for the aggressor of the step
Better(p, q) == IF AggBuy THEN p < q ELSE p > q

BestOf(S) == IF AggBuy THEN MinOf(S) ELSE Max(S)

\* the resting order a trade of the step names
RestingId(t) == IF AggBuy THEN t.seller_order_id ELSE t.buyer_order_id

AggressorId(t) == IF AggBuy THEN t.buyer_order_id ELSE t.seller_order_id

Ids(orders) == {orders[i].id : i \in 1..Len(orders)}

\* the queue at price p after the step (empty when the level is gone)
PostQueue(p) == IF p \in DOMAIN OppPost THEN OppPost[p].orders ELSE <<>>

\* C2: the first Trade of a Buy (Sell) aggressor of add_limit_order or
\* add_market_order is at the lowest ask (highest bid) price present, its Trade
\* prices never improve afterwards, and a level is traded at only when every
\* better-priced level has nothing left.
C2_PricePriority ==
    [][(api = "book" /\ MatchedStep /\ result'.op \in BookAdd
        /\ Trades(result') # <<>>)
       => LET ts == Trades(result')
          IN /\ ts[1].price = BestOf(DOMAIN OppPre)
             /\ \A i \in 1..(Len(ts) - 1) : ~Better(ts[i + 1].price, ts[i].price)
             /\ \A i \in 1..Len(ts), q \in DOMAIN OppPre :
                   Better(q, ts[i].price)
                       => (q \notin DOMAIN OppPost \/ OppPost[q].total_quantity = 0)]_vars

IdSeq(orders) == [i \in 1..Len(orders) |-> orders[i].id]

Prices == DOMAIN bids \cup DOMAIN asks

QueueAt(m, p) == IF p \in DOMAIN m THEN m[p].orders ELSE <<>>

\* the order the step took out of its level and queued again (a modify_order
\* with a price, which cancels and re-adds)
Requeued ==
    IF result'.op = "modify_order" /\ result'.order.id # 0
    THEN {result'.order.id} ELSE {}

\* the orders of pre still queued in post come first in post, in their old
\* order; whatever joined the level (or was queued again) is behind them
KeepsOrder(pre, post) ==
    LET kept == SelectSeq(pre, LAMBDA o : o.id \in Ids(post) \ Requeued)
    IN /\ Len(kept) <= Len(post)
       /\ IdSeq(SubSeq(post, 1, Len(kept))) = IdSeq(kept)
       /\ \A i \in (Len(kept) + 1)..Len(post) :
             post[i].id \notin Ids(pre) \ Requeued

\* the trades of the step take a prefix of the queue pre: every order ahead of
\* one that traded has traded too and has left the level
HeadFirst(pre, post) ==
    LET traded == {RestingId(Trades(result')[i]) : i \in 1..Len(Trades(result'))}
    IN \A j \in 1..Len(pre) :
          pre[j].id \in traded
              => /\ \A i \in 1..(j - 1) :
                       pre[i].id \in traded /\ pre[i].id \notin Ids(post)
                 /\ (pre[j].id \in Ids(post) => post[1].id = pre[j].id)

\* C3: at every level the queue keeps arrival order (a step leaves the orders
\* that stay, other than one it re-priced, in their relative order and puts
\* newcomers behind them), an
\* aggressor fills the orders of a level from the head, each one completely
\* before the next receives anything, and the partially filled order is the
\* head of the queue afterwards.
C3_TimePriority ==
    [][/\ \A p \in Prices : /\ KeepsOrder(QueueAt(bids, p), QueueAt(bids', p))
                            /\ KeepsOrder(QueueAt(asks, p), QueueAt(asks', p))
       /\ MatchedStep
            => \A p \in DOMAIN OppPre : HeadFirst(OppPre[p].orders, PostQueue(p))]_vars

\* a call returned two trades at one level, and the second resting order is
\* still the head of that level, partially filled
C3_Witness ==
    /\ Returned /\ result.status = "Ok" /\ Len(Trades(result)) = 2
    /\ \E m \in {bids, asks} : \E p \in DOMAIN m :
          /\ m[p].orders # <<>>
          /\ m[p].orders[1].status = "PartiallyFilled"
          /\ m[p].orders[1].side # result.order.side
          /\ m[p].orders[1].id \in {Trades(result)[2].buyer_order_id,
                                    Trades(result)[2].seller_order_id}
          /\ Trades(result)[1].price = p /\ Trades(result)[2].price = p

\* C4: every Trade of a matching call carries the price of the level in which
\* its resting order was queued, names the aggressor and the resting order on
\* the sides they are on, Buy as buyer_order_id and Sell as seller_order_id.
C4_TradePriceAndSides ==
    [][MatchedStep
       => \A i \in 1..Len(Trades(result')) :
             LET t == Trades(result')[i]
             IN /\ AggressorId(t) = result'.order.id
                /\ \E p \in DOMAIN OppPre : \E k \in 1..Len(OppPre[p].orders) :
                      /\ OppPre[p].orders[k].id = RestingId(t)
                      /\ OppPre[p].orders[k].side # result'.order.side
                      /\ t.price = p]_vars

\* a limit order traded at a price other than its own limit price
C4_Witness ==
    /\ Returned /\ result.status = "Ok" /\ Trades(result) # <<>>
    /\ result.order.order_type = "Limit"
    /\ Trades(result)[1].price # result.order.price

\* the resting orders the step filled: those of the opposite side that left
\* their level or have another remaining quantity
Remaining(m, id) ==
    LET os == {o \in OrdersIn(m) : o.id = id}
    IN IF os = {} THEN 0 ELSE (CHOOSE o \in os : TRUE).remaining_quantity

FilledIds ==
    {o.id : o \in {x \in OrdersIn(OppPre) :
                      x.id \notin {o.id : o \in OrdersIn(OppPost)}
                      \/ Remaining(OppPost, x.id) # x.remaining_quantity}}

FilledAtOneLevel ==
    /\ api = "book" /\ MatchedStep /\ result'.op = "add_limit_order"
    /\ result'.order.original_quantity > 0
    /\ result'.order.id \notin DOMAIN order_locations'
    /\ Cardinality(FilledIds) >= 2
    /\ \E p \in DOMAIN OppPre : FilledIds \subseteq Ids(OppPre[p].orders)

C7_TotalOrders ==
    (api = "book" /\ Returned)
        => /\ total_orders = QueuedCount
           /\ DOMAIN order_locations = {o.id : o \in QueuedOrders}
           /\ \A o \in QueuedOrders : o.status \notin {"Filled", "Cancelled"}

\* three orders went in: one was filled and left, one was the aggressor that
\* never rested, one stays partially filled and is the only order counted
C7_Witness ==
    /\ api = "book" /\ Returned /\ next_id = 4
    /\ Len(Trades(result)) = 2
    /\ total_orders = 1
    /\ \E o \in QueuedOrders : o.status = "PartiallyFilled"

\* C8: original_quantity = filled_quantity + remaining_quantity for every
\* queued order and for the order a call reports as added.
C8_QuantityConservation ==
    /\ \A o \in QueuedOrders :
          o.original_quantity = o.filled_quantity + o.remaining_quantity
    /\ \A i \in 1..Len(result.events) :
          result.events[i].type = "OrderAdded"
              => result.events[i].order.original_quantity
                     = result.events[i].order.filled_quantity
                       + result.events[i].order.remaining_quantity

\* C9: every Trade a call returns has a quantity above 0.
C9_PositiveTradeQuantity ==
    \A i \in 1..Len(Trades(result)) : Trades(result)[i].quantity > 0

\* no order with something left to fill is queued in m
NoLiquidity(m) == \A o \in OrdersIn(m) : o.remaining_quantity = 0

HasOrderAdded(r) == \E i \in 1..Len(r.events) : r.events[i].type = "OrderAdded"

\* the order the last call was given is queued or tracked
GivenOrderRests ==
    \/ result.order.id \in DOMAIN order_locations
    \/ \E o \in QueuedOrders : o.id = result.order.id

\* C11: an accepted Market order of OrderOperations::add_order has traded (with
\* no fill the call is refused), is reported by no OrderAdded event, and is
\* neither queued in a level nor tracked in order_locations.
C11_MarketNeverRests ==
    (api = "ops" /\ Returned /\ result.op = "add_order" /\ result.status = "Ok"
     /\ result.order.order_type = "Market")
        => /\ Trades(result) # <<>>
           /\ ~HasOrderAdded(result)
           /\ ~GivenOrderRests

RECURSIVE SumRemaining(_)
SumRemaining(orders) ==
    IF orders = <<>> THEN 0
    ELSE Head(orders).remaining_quantity + SumRemaining(Tail(orders))

RECURSIVE SumOver(_, _)
SumOver(m, S) ==
    IF S = {} THEN 0
    ELSE LET p == CHOOSE x \in S : TRUE
         IN SumRemaining(m[p].orders) + SumOver(m, S \ {p})

\* what the orders queued opposite to `side` offer at prices a limit of `price`
\* accepts
EligibleLiquidity(side, price) ==
    LET opp == OppositeOf(side)
    IN SumOver(opp, {p \in DOMAIN opp : IF side = "Buy" THEN p <= price
                                         ELSE p >= price})

\* C12: a FillOrKill order of quantity q given to OrderOperations::add_order
\* either finds q or more at eligible prices and returns Trades, and only
\* Trades, that add up to q, or finds less, returns Ok with no event and
\* leaves bids, asks and order_locations as they were; it never rests.
C12_FillOrKill ==
    [][\A side \in Side, price \in 1..MaxPrice, q \in 1..MaxQty :
          OrderOperations_add_order_call("FillOrKill", side, price, q)
              => /\ result'.status = "Ok"
                 /\ IF EligibleLiquidity(side, price) >= q
                    THEN /\ Trades(result') = result'.events
                         /\ SumQuantity(result'.events) = q
                    ELSE /\ result'.events = <<>>
                         /\ UNCHANGED <<bids, asks, order_locations>>
                 /\ next_id \notin DOMAIN order_locations'
                 /\ \A o \in OrdersIn(bids') \cup OrdersIn(asks') : o.id # next_id]_vars


\* C13: an ImmediateOrCancel order given to OrderOperations::add_order trades
\* what the eligible prices offer, up to its quantity, and only there; the
\* call returns Trades and nothing else, and the order is neither queued nor
\* tracked afterwards.
C13_ImmediateOrCancel ==
    [][\A side \in Side, price \in 1..MaxPrice, q \in 1..MaxQty :
          OrderOperations_add_order_call("ImmediateOrCancel", side, price, q)
              => /\ result'.status = "Ok"
                 /\ Trades(result') = result'.events
                 /\ \A i \in 1..Len(result'.events) :
                       IF side = "Buy" THEN result'.events[i].price <= price
                       ELSE result'.events[i].price >= price
                 /\ SumQuantity(result'.events)
                       = Min(q, EligibleLiquidity(side, price))
                 /\ next_id \notin DOMAIN order_locations'
                 /\ \A o \in OrdersIn(bids') \cup OrdersIn(asks') : o.id # next_id]_vars

\* an ImmediateOrCancel order was filled in part and the rest of it is nowhere
C13_Witness ==
    /\ api = "ops" /\ Returned /\ result.op = "add_order" /\ result.status = "Ok"
    /\ result.order.order_type = "ImmediateOrCancel"
    /\ result.events # <<>>
    /\ SumQuantity(result.events) < result.order.original_quantity
    /\ ~GivenOrderRests

\* the order with this id is tracked and queued in the level its location names
Resting(id) ==
    /\ id \in DOMAIN order_locations
    /\ order_locations[id].price \in DOMAIN OwnOf(order_locations[id].side)
    /\ id \in Ids(OwnOf(order_locations[id].side)[order_locations[id].price].orders)

RestingOrder(id) ==
    CHOOSE o \in QueuedOrders : o.id = id

\* the side map of `side` after the step
OwnPost(side) == IF side = "Buy" THEN bids' ELSE asks'

\* C14: cancel_order of a resting order returns OrderCancelled with the order's
\* remaining quantity, takes that order and no other out of its level, drops
\* its order_locations entry, and drops the level from the map when it was the
\* level's last order.
C14_CancelResting ==
    [][\A id \in 1..MaxOrders :
          (Resting(id) /\ (OrderBook_cancel_order(id) \/ OrderOperations_cancel_order(id)))
              => LET loc == order_locations[id]
                     own == OwnOf(loc.side)
                     queue == own[loc.price].orders
                     rest == SelectSeq(queue, LAMBDA o : o.id # id)
                 IN /\ pc' = "idle"
                    /\ result'.status = "Ok"
                    /\ result'.events
                          = <<OrderCancelled(id, RestingOrder(id).remaining_quantity)>>
                    /\ order_locations' = MapRemove(order_locations, id)
                    /\ IF rest = <<>>
                       THEN OwnPost(loc.side) = MapRemove(own, loc.price)
                       ELSE /\ DOMAIN OwnPost(loc.side) = DOMAIN own
                            /\ OwnPost(loc.side)[loc.price].orders = rest
                            /\ \A p \in DOMAIN own \ {loc.price} :
                                  OwnPost(loc.side)[p] = own[p]
                    /\ OwnPost(OppSide(loc.side)) = OppositeOf(loc.side)]_vars

\* C15: cancel_order of an id that is queued in no level (never added, already
\* cancelled or completely filled) returns OrderNotFound and leaves bids, asks
\* and order_locations as they were.
C15_CancelUnknown ==
    [][\A id \in 1..MaxOrders :
          ((\A o \in QueuedOrders : o.id # id)
           /\ (OrderBook_cancel_order(id) \/ OrderOperations_cancel_order(id)))
              => /\ result'.status = "Err"
                 /\ result'.err = "OrderNotFound"
                 /\ UNCHANGED <<bids, asks, order_locations>>]_vars

\* the last call was an add_limit_order that matched nothing and rested its order
AddedWithoutMatch ==
    /\ api = "book"
    /\ Returned
    /\ result.op = "add_limit_order"
    /\ result.status = "Ok"
    /\ Len(result.events) = 1
    /\ result.events[1].type = "OrderAdded"

NoEmptyLevel(m) == \A p \in DOMAIN m : ~is_empty(m[p])

\* C16: OrderBook::add_limit_order of an order that matches nothing, followed
\* at once by cancel_order of that order, returns and leaves the book as it was
\* before the add: putting the order back on the book after the cancel gives
\* the book of before the cancel, no level is left empty, the opposite side
\* and the statistics are untouched, and the order is tracked nowhere.
C16_AddCancelRoundTrip ==
    [][(AddedWithoutMatch /\ OrderBook_cancel_order(result.order.id))
          => LET order == result.order
                 back == OrderBook_add_order_to_book(order, OwnPost(order.side),
                                                     order_locations')
             IN /\ pc' = "idle"
                /\ result'.status = "Ok"
                /\ order.id \notin DOMAIN order_locations'
                /\ \A o \in OrdersIn(bids') \cup OrdersIn(asks') : o.id # order.id
                /\ NoEmptyLevel(OwnPost(order.side))
                /\ back.levels = OwnOf(order.side)
                /\ back.locs = order_locations
                /\ OwnPost(OppSide(order.side)) = OppositeOf(order.side)
                /\ UNCHANGED <<last_trade_price, total_trades, total_volume>>]_vars

\* the step is a quantity-only modification of order id to quantity q, by
\* either facade, that returned Ok
QuantityModified(id, q) ==
    /\ \/ OrderBook_modify_order_quantity(id, q)
       \/ OrderOperations_modify_order(id, None, q)
    /\ result'.status = "Ok"

\* an order whose quantity was modified: its remaining and filled quantities
\* no longer add up to its original quantity
WasModified(o) == o.remaining_quantity + o.filled_quantity # o.original_quantity

\* a matching step that trades with an order queued behind a modified order
\* has traded with the modified order first, and completely
ModifiedFirst(pre, post) ==
    LET traded == {RestingId(Trades(result')[i]) : i \in 1..Len(Trades(result'))}
    IN \A j \in 1..Len(pre) : \A k \in (j + 1)..Len(pre) :
          (WasModified(pre[j]) /\ pre[k].id \in traded)
              => pre[j].id \in traded /\ pre[j].id \notin Ids(post)

\* C17: a successful quantity-only modification returns exactly one
\* OrderModified{order_id, None, Some(q)}; the order stays at its position in
\* its queue with its price, side and every field but the remaining quantity;
\* no other order, level or location changes; and a later aggressor that
\* trades with an order queued behind a modified order has filled the modified
\* order first.
C17_QuantityModifyKeepsPlace ==
    [][/\ \A id \in 1..MaxOrders, q \in 0..MaxQty :
             QuantityModified(id, q)
                 => LET loc == order_locations[id]
                        pre == OwnOf(loc.side)
                        post == OwnPost(loc.side)
                    IN /\ pc' = "idle"
                       /\ result'.events = <<OrderModified(id, None, q)>>
                       /\ order_locations' = order_locations
                       /\ OwnPost(OppSide(loc.side)) = OppositeOf(loc.side)
                       /\ DOMAIN post = DOMAIN pre
                       /\ \A p \in DOMAIN pre \ {loc.price} : post[p] = pre[p]
                       /\ post[loc.price].order_count = pre[loc.price].order_count
                       /\ Len(post[loc.price].orders) = Len(pre[loc.price].orders)
                       /\ \A i \in 1..Len(pre[loc.price].orders) :
                             LET old == pre[loc.price].orders[i]
                                 new == post[loc.price].orders[i]
                             IN IF old.id = id
                                THEN new = [old EXCEPT !.remaining_quantity =
                                                          new.remaining_quantity]
                                ELSE new = old
       /\ MatchedStep
            => \A p \in DOMAIN OppPre : ModifiedFirst(OppPre[p].orders, PostQueue(p))]_vars

\* an aggressor traded with a modified order at the head of its level, which
\* stays there partially filled, and the order queued behind it is untouched
C17_Witness ==
    /\ Returned /\ result.status = "Ok" /\ Len(Trades(result)) = 1
    /\ \E m \in {bids, asks} : \E p \in DOMAIN m :
          /\ Len(m[p].orders) >= 2
          /\ WasModified(m[p].orders[1])
          /\ m[p].orders[1].status = "PartiallyFilled"
          /\ m[p].orders[1].id \in {Trades(result)[1].buyer_order_id,
                                    Trades(result)[1].seller_order_id}
          /\ m[p].orders[1].id # result.order.id
          /\ m[p].orders[2].status = "New"
          /\ m[p].orders[2].filled_quantity = 0

\* C18: after a successful quantity-only modification of a resting order to
\* new_quantity, the order's remaining quantity is new_quantity minus its
\* filled quantity, and the total_quantity of its level has changed by the
\* same signed difference as the remaining quantity.
C18_ModifiedRemaining ==
    [][\A id \in 1..MaxOrders, q \in 0..MaxQty :
          (Resting(id) /\ QuantityModified(id, q))
              => LET loc == order_locations[id]
                     old == RestingOrder(id)
                     remaining == Remaining(OwnPost(loc.side), id)
                 IN /\ remaining = q - old.filled_quantity
                    /\ OwnPost(loc.side)[loc.price].total_quantity
                           - OwnOf(loc.side)[loc.price].total_quantity
                       = remaining - old.remaining_quantity]_vars

\* C19: a quantity-only modification of a resting order to 0, or to less than
\* the order's filled quantity, is rejected with InvalidQuantity by both
\* facades and leaves bids, asks and order_locations unchanged.
C19_RejectsBadQuantity ==
    [][\A id \in 1..MaxOrders, q \in 0..MaxQty :
          (/\ Resting(id)
           /\ (q = 0 \/ q < RestingOrder(id).filled_quantity)
           /\ \/ OrderBook_modify_order_quantity(id, q)
              \/ OrderOperations_modify_order(id, None, q))
              => /\ result'.status = "Err"
                 /\ result'.err = "InvalidQuantity"
                 /\ UNCHANGED <<bids, asks, order_locations>>]_vars

\* C20: when OrderOperations::modify_order with a new price returns an error,
\* bids, asks and order_locations are exactly as before the call.
C20_FailedRepriceChangesNothing ==
    [][\A id \in 1..MaxOrders, price \in 0..MaxPrice, q \in {None} \cup (0..MaxQty) :
          (OrderOperations_modify_order(id, price, q) /\ result'.status = "Err")
              => UNCHANGED <<bids, asks, order_locations>>]_vars

\* the quantity still to be executed of order o once modified to quantity q
\* (None keeps the quantity)
UnfilledAfter(o, q) == IF q = None THEN o.remaining_quantity ELSE q - o.filled_quantity

\* C21: OrderOperations::modify_order with a new valid price on a resting
\* order, New or PartiallyFilled, returns Ok; the order's unfilled quantity is
\* the sum of the Trades returned plus what rests; a residual rests at the tail
\* of the queue at the new price with order_locations naming that price and
\* side, and without a residual the order is tracked nowhere.
C21_RepriceResubmits ==
    [][\A id \in 1..MaxOrders, price \in 1..MaxPrice, q \in {None} \cup (1..MaxQty) :
          (/\ Resting(id)
           /\ RestingOrder(id).remaining_quantity > 0
           /\ q # None => q > RestingOrder(id).filled_quantity
           /\ OrderOperations_modify_order(id, price, q))
              => LET old == RestingOrder(id)
                     own == OwnPost(old.side)
                     traded == SumQuantity(Trades(result'))
                     residual == UnfilledAfter(old, q) - traded
                 IN /\ pc' = "idle"
                    /\ result'.status = "Ok"
                    /\ residual >= 0
                    /\ IF residual > 0
                       THEN /\ id \in DOMAIN order_locations'
                            /\ order_locations'[id] = [price |-> price, side |-> old.side]
                            /\ price \in DOMAIN own
                            /\ own[price].orders[Len(own[price].orders)].id = id
                            /\ Remaining(own, id) = residual
                            /\ Cardinality({o \in OrdersIn(bids') \cup OrdersIn(asks') :
                                               o.id = id}) = 1
                       ELSE /\ id \notin DOMAIN order_locations'
                            /\ \A o \in OrdersIn(bids') \cup OrdersIn(asks') :
                                  o.id # id]_vars

\* every order queued in side map m carries the price of its level, above 0
PricedAtLevel(m) ==
    \A p \in DOMAIN m : \A i \in 1..Len(m[p].orders) :
        m[p].orders[i].price = p /\ p > 0

\* C22: OrderBook::add_limit_order of an order with price 0 returns
\* InvalidPrice and leaves the book unchanged, and after every step of the
\* book each resting order has a price above 0 equal to its level's price.
C22_RejectsZeroPrice ==
    [][(api = "book")
          => /\ \A side \in Side, q \in 0..MaxQty :
                   OrderBook_add_limit_order(Symbol, side, 0, q)
                       => /\ result'.status = "Err"
                          /\ result'.err = "InvalidPrice"
                          /\ UNCHANGED <<bids, asks, order_locations>>
             /\ PricedAtLevel(bids') /\ PricedAtLevel(asks')]_vars

\* an order a caller can hand to OrderOperations::add_order: any type, price,
\* quantities and status (the fields of Order are public)
GivenOrder(sd, t, p, oq, rq, st) ==
    [id |-> next_id, symbol |-> Symbol, side |-> sd, order_type |-> t, price |-> p,
     original_quantity |-> oq, remaining_quantity |-> rq,
     filled_quantity |-> oq - rq, status |-> st]

AllOrderTypes ==
    {"Limit", "Market", "ImmediateOrCancel", "FillOrKill", "Stop", "StopLimit"}

AllStatuses == {"New", "PartiallyFilled", "Filled", "Cancelled", "Rejected", "Expired"}

\* the claim names error e for order o
ErrorNamed(o, e) ==
    \/ e = "InvalidQuantity" /\ (o.original_quantity = 0 \/ o.remaining_quantity = 0)
    \/ e = "InvalidPrice" /\ o.price = 0
          /\ o.order_type \in {"Limit", "ImmediateOrCancel", "FillOrKill"}
    \/ e = "InvalidOrderType" /\ o.order_type \in {"Stop", "StopLimit"}
    \/ e = "InvalidOrderState" /\ o.status # "New"

\* the claim names some error for order o
Refusable(o) ==
    \/ o.original_quantity = 0 \/ o.remaining_quantity = 0
    \/ o.price = 0 /\ o.order_type \in {"Limit", "ImmediateOrCancel", "FillOrKill"}
    \/ o.order_type \in {"Stop", "StopLimit"}
    \/ o.status # "New"

\* what add_order returned for o is an error named for it, with no event and
\* the three maps as they were
RejectedAsNamed(o, r) ==
    /\ ErrorNamed(o, r.err)
    /\ r.events = <<>>
    /\ r.bids = bids /\ r.asks = asks /\ r.locs = order_locations

Validated(o) ==
    Refusable(o)
        => RejectedAsNamed(o, OrderOperations_add_order(o, bids, asks, order_locations))

\* C23: on the maps of every state in which a call can be made,
\* OrderOperations::add_order of an
\* order with zero original or remaining quantity, a Limit/IOC/FOK order with
\* price 0, a Stop or StopLimit order, or an order whose status is not New
\* returns the error named for a condition the order meets (InvalidQuantity,
\* InvalidPrice, InvalidOrderType, InvalidOrderState), with no events and with
\* bids, asks and order_locations unchanged.
C23_AddOrderValidation ==
    (api = "ops" /\ pc = "idle" /\ next_id <= MaxOrders)
        => \A sd \in Side, t \in AllOrderTypes, p \in 0..MaxPrice, st \in AllStatuses :
              \A oq \in 0..MaxQty : \A rq \in 0..oq :
                  Validated(GivenOrder(sd, t, p, oq, rq, st))

\* add_order refused an order on maps that hold resting orders
C23_Witness ==
    /\ api = "ops" /\ Returned
    /\ result.op = "add_order" /\ result.status = "Err"
    /\ result.err \in {"InvalidQuantity", "InvalidPrice", "InvalidOrderType"}
    /\ result.events = <<>>
    /\ QueuedOrders # {}

\* the Trade events the step returned to its caller
ReturnedTrades ==
    IF pc' = "idle" /\ result'.status = "Ok" /\ result'.op \in BookAdd
    THEN Trades(result') ELSE <<>>

\* C24: in the book, every step adds the number of Trade events it returned to
\* total_trades and the sum of their quantities to total_volume;
\* last_trade_price() is None while no trade has occurred and Some(price of the
\* last Trade returned) after a step that returned trades; a step that returns
\* no Trade (cancel_order and modify_order_quantity among them) changes none
\* of the three.
C24_Statistics ==
    [][(api = "book")
          => /\ total_trades' = total_trades + Len(ReturnedTrades)
             /\ total_volume' = total_volume + SumQuantity(ReturnedTrades)
             /\ IF ReturnedTrades = <<>>
                THEN OrderBook_last_trade_price' = OrderBook_last_trade_price
                ELSE OrderBook_last_trade_price'
                        = ReturnedTrades[Len(ReturnedTrades)].price
             /\ (total_trades' = 0) = (OrderBook_last_trade_price' = None)]_vars

\* the summed total_quantity of the levels S of side map m
RECURSIVE SumTotals(_, _)
SumTotals(m, S) ==
    IF S = {} THEN 0
    ELSE LET p == CHOOSE x \in S : TRUE
         IN m[p].total_quantity + SumTotals(m, S \ {p})

Depth(m) == SumTotals(m, DOMAIN m)

\* what the events of a returned call add to the resting depth: the residual
\* of an OrderAdded, less the quantity of a Trade and the remainder of an
\* OrderCancelled
RECURSIVE DepthChange(_)
DepthChange(events) ==
    IF events = <<>> THEN 0
    ELSE LET e == Head(events)
         IN (CASE e.type = "OrderAdded" -> e.order.remaining_quantity
               [] e.type = "Trade" -> 0 - e.quantity
               [] e.type = "OrderCancelled" -> 0 - e.remaining_quantity
               [] OTHER -> 0)
            + DepthChange(Tail(events))

\* the residual the call reports as added (0 if none)
RestedQuantity(events) ==
    IF events # <<>> /\ events[Len(events)].type = "OrderAdded"
    THEN events[Len(events)].order.remaining_quantity ELSE 0

\* C25: for every successful add_limit_order or add_market_order, the returned
\* Trade quantities add up to the decrease of the summed total_quantity of the
\* opposite side, and for add_limit_order the incoming quantity is that sum
\* plus the remaining quantity of the order reported as added; in every
\* returned call the summed total_quantity of both sides changes by the rested
\* residual, less the traded and cancelled quantities, or, for a quantity
\* modification, by the new quantity less the old remaining quantity.
C25_DepthConservation ==
    [][(api = "book" /\ pc' = "idle")
          => /\ (result'.status = "Ok" /\ result'.op \in BookAdd)
                   => /\ SumQuantity(Trades(result')) = Depth(OppPre) - Depth(OppPost)
                      /\ result'.op = "add_limit_order"
                            => result'.order.original_quantity
                                  = SumQuantity(Trades(result'))
                                    + RestedQuantity(result'.events)
             /\ Depth(bids') + Depth(asks') - (Depth(bids) + Depth(asks))
                   = IF result'.op = "modify_order_quantity" /\ result'.status = "Ok"
                     THEN result'.events[1].new_quantity
                          - RestingOrder(result'.target).remaining_quantity
                     ELSE IF result'.status = "Ok" THEN DepthChange(result'.events)
                     ELSE 0]_vars

\* a limit order of 2 was filled by two resting orders of a level that still
\* holds an order
C25_Witness ==
    /\ api = "book" /\ Returned
    /\ result.op = "add_limit_order" /\ result.status = "Ok"
    /\ Len(Trades(result)) = 2
    /\ SumQuantity(Trades(result)) = 2
    /\ result.order.original_quantity = 2
    /\ Depth(bids) + Depth(asks) > 0

\* the order of the opposite side, before the step, that trade t names
RestingOf(t) == CHOOSE o \in OrdersIn(OppPre) : o.id = RestingId(t)

\* C26: no matching call returns a Trade between an aggressor and a resting
\* order that carry the same client_id; such a resting order keeps its
\* quantity and its place in the queue.
C26_NoSelfTrade ==
    [][MatchedStep
          => /\ \A i \in 1..Len(Trades(result')) :
                   ~MatchingEngine_is_self_trade(result'.order,
                                                 RestingOf(Trades(result')[i]))
             /\ \A o \in OrdersIn(OppPre) :
                   MatchingEngine_is_self_trade(result'.order, o)
                       => o \in OrdersIn(OppPost)]_vars

\* add_limit_order run alone on the maps st: the maps and events it returns
\* with, `returned` being FALSE when it never returns
AloneMatched(order, st, m) ==
    LET own == IF order.side = "Buy" THEN st.bids ELSE st.asks
        rests == m.status = "ok" /\ m.order.remaining_quantity > 0
        added == OrderBook_add_order_to_book(m.order, own, m.locs)
        own2 == IF rests THEN added.levels ELSE own
    IN [returned |-> st.returned /\ m.status = "ok",
        bids |-> IF order.side = "Buy" THEN own2 ELSE m.opp,
        asks |-> IF order.side = "Buy" THEN m.opp ELSE own2,
        locs |-> IF rests THEN added.locs ELSE m.locs,
        events |-> [st.events EXCEPT ![order.side] =
                       IF rests THEN Append(m.trades, OrderAdded(m.order))
                       ELSE m.trades]]

Alone(order, st) ==
    AloneMatched(order, st,
        OrderBook_match_order(order, IF order.side = "Buy" THEN st.asks ELSE st.bids,
                              st.locs))

\* the two calls of the threads run one after the other, `first` first
Serial(first, second) ==
    Alone(second,
          Alone(first, [returned |-> TRUE, bids |-> threads.start.bids,
                        asks |-> threads.start.asks, locs |-> threads.start.locs,
                        events |-> [t \in Threads |-> <<>>]]))

BothReturned == pc = "threads" /\ \A t \in Threads : At(t) = "returned"

Outcome ==
    [returned |-> TRUE, bids |-> bids, asks |-> asks, locs |-> order_locations,
     events |-> [t \in Threads |-> threads.calls[t].events]]

\* the orders the two threads were given: matching leaves id, side, price and
\* original quantity as they were
Given(t) ==
    new_limit(threads.calls[t].order.id, Symbol, t, threads.calls[t].order.price,
              threads.calls[t].order.original_quantity)

\* C27: when two threads call add_limit_order at once, one with a Buy at p and
\* one with a Sell at q <= p, then once both calls have returned the book is
\* not crossed, and its maps and the events of the two calls are those of
\* running the two calls one after the other in one of the two orders.
C27_ConcurrentAddsAtomic ==
    (BothReturned /\ Given("Sell").price <= Given("Buy").price)
        => /\ (DOMAIN bids # {} /\ DOMAIN asks # {}) => best_bid < best_ask
           /\ \/ Outcome = Serial(Given("Buy"), Given("Sell"))
              \/ Outcome = Serial(Given("Sell"), Given("Buy"))

\* C28: a FillOrKill order given to OrderOperations::add_order while another
\* thread cancels an order returns Trades whose quantities add up to 0 or to
\* its whole quantity, and is never put into the book.
C28_ConcurrentFillOrKill ==
    (threads # EmptyMap /\ "fok" \in DOMAIN threads.calls /\ At("fok") = "returned")
        => LET call == threads.calls["fok"]
           IN /\ SumQuantity(Trades(call)) \in {0, call.order.original_quantity}
              /\ call.order.id \notin DOMAIN order_locations
              /\ \A o \in QueuedOrders : o.id # call.order.id

\* C29: with one caller at a time every public operation of OrderBook runs to
\* completion and returns: no call is left waiting for a map lock that its own
\* level reference still holds, and the book it leaves keeps no emptied level.
C29_BookCallsReturn ==
    api = "book" => /\ pc = "idle"
                     /\ result.status # "Blocked"
                     /\ NoEmptyLevel(bids) /\ NoEmptyLevel(asks)

\* the levels the reader's snapshot has reported so far
Reported ==
    {Reader.bids[i] : i \in 1..Len(Reader.bids)}
        \cup {Reader.asks[i] : i \in 1..Len(Reader.asks)}

\* C30: a snapshot() taken by a reader thread while a writer thread adds,
\* matches or cancels never reports a level with order_count 0, nor a level
\* whose quantity and order_count disagree about the level being empty.
C30_SnapshotSeesWholeLevels ==
    (threads # EmptyMap /\ "reader" \in DOMAIN threads.calls)
        => \A info \in Reported :
              /\ info.order_count # 0
              /\ (info.quantity = 0) <=> (info.order_count = 0)

\* every order_locations entry names a level that is in the map of its side
\* and queues exactly one order with that id, and every queued order has the
\* entry of its level
LocationsMatchQueues ==
    /\ \A id \in DOMAIN order_locations :
          LET loc == order_locations[id]
              m == OwnOf(loc.side)
          IN /\ loc.price \in DOMAIN m
             /\ Cardinality({i \in 1..Len(m[loc.price].orders) :
                                m[loc.price].orders[i].id = id}) = 1
    /\ \A side \in Side : \A p \in DOMAIN OwnOf(side) :
          \A i \in 1..Len(OwnOf(side)[p].orders) :
             LET o == OwnOf(side)[p].orders[i]
             IN /\ o.id \in DOMAIN order_locations
                /\ order_locations[o.id] = [price |-> p, side |-> side]

\* C31: after every call of OrderOperations (add_order, cancel_order,
\* modify_order) made one at a time on one set of maps, order_locations and
\* the queues of the levels name the same orders at the same places.
C31_LocationsConsistent ==
    (api = "ops" /\ Returned) => LocationsMatchQueues

\* the counters of a level agree with its queue
CountersMatchQueue(level) ==
    /\ level.total_quantity = SumRemaining(level.orders)
    /\ level.order_count = Len(level.orders)
    /\ is_empty(level) <=> level.orders = <<>>

\* C32: after any sequence of add_order, remove_order, take_quantity and
\* modify_order_quantity calls made one at a time on a PriceLevel,
\* total_quantity() is the sum of remaining_quantity over the queue and
\* order_count() the length of the queue, so is_empty() holds exactly when
\* the queue is empty.
C32_LevelCounters ==
    api = "level" => CountersMatchQueue(TheLevel)

\* a level that was modified, then partly taken, and still queues an order
C32_Witness ==
    /\ api = "level"
    /\ modifies > 0
    /\ result.op = "take_quantity"
    /\ result.events # <<>>
    /\ TheLevel.orders # <<>>
    /\ TheLevel.total_quantity > 0

\* no level of side map m has an empty queue
NoEmptyQueue(m) == \A p \in DOMAIN m : m[p].orders # <<>>

\* C33: after every public call of either facade has returned, with success or
\* with an error, no level with an empty queue is left in bids or asks.
C33_NoEmptyLevelPersists ==
    (api \in {"book", "ops"} /\ Returned) => (NoEmptyQueue(bids) /\ NoEmptyQueue(asks))

\* C34: after any sequence of public add, cancel and modify calls, every order
\* queued in a level has remaining_quantity above 0 and status New or
\* PartiallyFilled.
C34_QueuedOrdersAreLive ==
    (api \in {"book", "ops"})
        => \A o \in QueuedOrders :
              /\ o.remaining_quantity > 0
              /\ o.status \in {"New", "PartiallyFilled"}

\* the quantity the trades of thread t give to the order with this id, and the
\* quantity of that order in the fills thread t has taken but not yet accounted
TradedBy(t, id) ==
    SumQuantity(SelectSeq(threads.calls[t].trades,
                          LAMBDA tr : tr.buyer_order_id = id \/ tr.seller_order_id = id))
    + SumQuantity(SelectSeq(threads.calls[t].fills, LAMBDA f : f.order.id = id))

RECURSIVE TradedByAll(_, _)
TradedByAll(T, id) ==
    IF T = {} THEN 0
    ELSE LET t == CHOOSE x \in T : TRUE
         IN TradedBy(t, id) + TradedByAll(T \ {t}, id)

\* the quantity the order with this id had to give when the threads started:
\* what remained of it in the book, or what its thread was given
QuantityAtStart(id) ==
    LET queued == {o \in OrdersIn(threads.start.bids) \cup OrdersIn(threads.start.asks) :
                      o.id = id}
        given == {t \in DOMAIN threads.calls :
                     /\ threads.calls[t].op = "add_limit_order"
                     /\ threads.calls[t].order.id = id}
    IN IF queued # {} THEN (CHOOSE o \in queued : TRUE).remaining_quantity
       ELSE IF given # {}
       THEN threads.calls[CHOOSE t \in given : TRUE].order.original_quantity
       ELSE 0

\* every fill of take_quantity(requested) on this queue passes its expect
RECURSIVE TakeSucceeds(_, _)
TakeSucceeds(orders, requested) ==
    IF requested > 0 /\ orders # <<>>
    THEN LET available == Head(orders).remaining_quantity
             fill_quantity == Min(requested, available)
         IN /\ fill(Head(orders), fill_quantity).ok
            /\ fill_quantity < available
                  \/ TakeSucceeds(Tail(orders), requested - fill_quantity)
    ELSE TRUE

\* C35: however add_limit_order and cancel_order calls on one book interleave,
\* the trades naming an order never add up to more than that order's quantity
\* (so nothing is filled twice), no fill inside take_quantity fails, and no
\* thread's own order.fill returns an error after the level was changed.
C35_NoOverFill ==
    (pc = "threads" /\ threads # EmptyMap /\ "a" \in DOMAIN threads.calls)
        => /\ \A id \in 1..MaxOrders :
                 TradedByAll(DOMAIN threads.calls, id) <= QuantityAtStart(id)
           /\ \A t \in DOMAIN threads.calls :
                 /\ threads.calls[t].err # "Cannot fill more than remaining quantity"
                 /\ RaceAt(t, "add_limit_order", "take")
                       => TakeSucceeds(
                              OppositeOf(threads.calls[t].order.side)
                                  [threads.calls[t].price].orders,
                              threads.calls[t].match_quantity)

\* two threads have each traded with the same resting order
C35_Witness ==
    /\ pc = "threads" /\ threads # EmptyMap /\ "b" \in DOMAIN threads.calls
    /\ \E id \in 1..MaxOrders :
          /\ id \notin {threads.calls["a"].order.id, threads.calls["b"].order.id}
          /\ TradedBy("a", id) > 0
          /\ TradedBy("b", id) > 0
          /\ threads.calls["a"].fills = <<>>
          /\ threads.calls["b"].fills = <<>>

\* every thread's call has returned
AllReturned ==
    /\ pc = "threads" /\ threads # EmptyMap /\ "a" \in DOMAIN threads.calls
    /\ \A t \in DOMAIN threads.calls : threads.calls[t].at = "returned"

LimitTypes == {"Limit", "ImmediateOrCancel", "FillOrKill"}

\* the price test of the claim, for the order the step was given
PricePermits(p) ==
    IF AggBuy THEN result'.order.price >= p ELSE result'.order.price <= p

\* C37: an order with a limit (Limit, ImmediateOrCancel, FillOrKill) never
\* trades through it: each Trade of its call has a price no higher than the
\* limit of a Buy and no lower than the limit of a Sell, and the queues of
\* the opposite side at prices that do not permit a match are left as they
\* were, whatever remains of the order.
C37_NoTradeThrough ==
    [][(MatchedStep /\ result'.order.order_type \in LimitTypes)
          => /\ \A i \in 1..Len(Trades(result')) :
                   PricePermits(Trades(result')[i].price)
             /\ \A p \in DOMAIN OppPre :
                   ~PricePermits(p) => QueueAt(OppPost, p) = QueueAt(OppPre, p)]_vars

\* a limit order traded, has something left, rests, and left alone a level of
\* the opposite side beyond its limit
C37_Witness ==
    /\ Returned /\ result.status = "Ok" /\ Trades(result) # <<>>
    /\ result.order.order_type = "Limit"
    /\ HasOrderAdded(result)
    /\ LET opp == IF result.order.side = "Buy" THEN asks ELSE bids
       IN \E p \in DOMAIN opp : ~can_match(result.order, p)

\* the step is a call of OrderBook::add_limit_order that returned Ok
LimitAdded ==
    /\ api = "book"
    /\ next_id' = next_id + 1
    /\ result'.op = "add_limit_order"
    /\ result'.status = "Ok"

\* what is left of the submitted quantity after the Trades of the step
LeftAfterTrades ==
    result'.order.original_quantity - SumQuantity(Trades(result'))

\* the order given to the step is tracked and is the last of the queue at its
\* price on its own side
QueuedAtTail ==
    LET id == result'.order.id
        queue == QueueAt(OwnPost(result'.order.side), result'.order.price)
    IN /\ id \in DOMAIN order_locations'
       /\ order_locations'[id] = [price |-> result'.order.price,
                                  side |-> result'.order.side]
       /\ queue # <<>>
       /\ queue[Len(queue)].id = id

\* the order given to the step is neither tracked nor queued
NowhereQueued ==
    /\ result'.order.id \notin DOMAIN order_locations'
    /\ \A o \in OrdersIn(bids') \cup OrdersIn(asks') : o.id # result'.order.id

\* C38: the events of a successful OrderBook::add_limit_order are Trade events
\* followed by at most one OrderAdded, which is last; OrderAdded is there
\* exactly when something of the order remains after matching, it carries the
\* submitted quantity less the Trade quantities as remaining_quantity, and
\* exactly then the order is registered and queued at the tail of the level
\* at its price on its own side.
C38_AddLimitEvents ==
    [][LimitAdded
          => LET events == result'.events
                 n == Len(events)
             IN /\ \A i \in 1..n : events[i].type \in {"Trade", "OrderAdded"}
                /\ \A i \in 1..(n - 1) : events[i].type = "Trade"
                /\ HasOrderAdded(result') <=> LeftAfterTrades > 0
                /\ HasOrderAdded(result')
                      => /\ events[n].order.id = result'.order.id
                         /\ events[n].order.remaining_quantity = LeftAfterTrades
                         /\ QueuedAtTail
                /\ ~HasOrderAdded(result') => NowhereQueued]_vars

\* an add_limit_order returned Trades and then an OrderAdded
C38_Witness ==
    /\ api = "book" /\ Returned
    /\ result.op = "add_limit_order" /\ result.status = "Ok"
    /\ Trades(result) # <<>>
    /\ SumQuantity(Trades(result)) > 0
    /\ HasOrderAdded(result)

\* the status of an order says what its quantities say
StatusMatchesQuantities(o) ==
    /\ o.status = "PartiallyFilled"
          <=> (0 < o.filled_quantity /\ o.filled_quantity < o.original_quantity)
    /\ o.status = "Filled"
          <=> (o.remaining_quantity = 0 /\ o.original_quantity > 0)

\* C39: after an Order::fill call that succeeded, the order's status is
\* PartiallyFilled exactly when 0 < filled_quantity < original_quantity and
\* Filled exactly when remaining_quantity is 0 and original_quantity above 0.
C39_StatusFollowsFills ==
    (api = "order" /\ result.op = "fill" /\ result.status = "Ok")
        => StatusMatchesQuantities(TheOrder)

Terminal(o) == o.status \in {"Filled", "Cancelled", "Rejected", "Expired"}

\* C40: once the status of an Order is Filled, Cancelled, Rejected or Expired,
\* no Order::fill and no Order::cancel call changes its status or its
\* quantities.
C40_TerminalStatusStays ==
    [][(api = "order" /\ Terminal(TheOrder))
          => /\ result'.order.status = TheOrder.status
             /\ result'.order.remaining_quantity = TheOrder.remaining_quantity
             /\ result'.order.filled_quantity = TheOrder.filled_quantity
             /\ result'.order.original_quantity = TheOrder.original_quantity]_vars

====
